---- MODULE Spec2Model ----
(***************************************************************************)
(* A model of CodeLine, the single-line syntax-aware editor engine         *)
(* (packages/code-line/src/CodeLine.ts).  Texts are sequences of           *)
(* one-character strings, offsets are 0-based as in the source.            *)
(***************************************************************************)
EXTENDS Integers, Sequences, FiniteSets, TLC

\* ------------------------------------------------------------------ bounds
MaxLen == 2
MaxDepth == 2
MaxNodes == 4
MaxCaptures == 2

Chars == {"1", "+"}
Digits == {"1"}
Texts == UNION {[1..n -> Chars] : n \in 0..MaxLen}
Offsets == 0..MaxLen

Min(a, b) == IF a < b THEN a ELSE b
Max(a, b) == IF a > b THEN a ELSE b

\* ------------------------------------------------ String.prototype.slice
\* A relative index: negative counts from the end, the result is clamped.
RelativeIndex(len, i) == IF i < 0 THEN Max(len + i, 0) ELSE Min(i, len)

Slice(s, a, b) ==
    LET from == RelativeIndex(Len(s), a)
        to == RelativeIndex(Len(s), b)
    IN IF from >= to THEN <<>> ELSE SubSeq(s, from + 1, to)

SliceFrom(s, a) == Slice(s, a, Len(s))

\* --------------------------------------- Number.toString and parseInt
DigitChar(d) == CASE d = 0 -> "0" [] d = 1 -> "1" [] d = 2 -> "2" [] d = 3 -> "3"
                  [] d = 4 -> "4" [] d = 5 -> "5" [] d = 6 -> "6" [] d = 7 -> "7"
                  [] d = 8 -> "8" [] d = 9 -> "9"

DigitValue(c) == CHOOSE d \in 0..9 : DigitChar(d) = c

RECURSIVE NumberToString(_)
NumberToString(n) ==
    IF n < 0 THEN <<"-">> \o NumberToString(0 - n)
    ELSE IF n < 10 THEN <<DigitChar(n)>>
    ELSE NumberToString(n \div 10) \o <<DigitChar(n % 10)>>

RECURSIVE ParseDigits(_, _)
ParseDigits(s, acc) ==
    IF s = <<>> THEN acc ELSE ParseDigits(Tail(s), acc * 10 + DigitValue(Head(s)))

ParseInt(s) ==
    IF s # <<>> /\ Head(s) = "-" THEN 0 - ParseDigits(Tail(s), 0) ELSE ParseDigits(s, 0)

\* ------------------------------------------------------------ the parser
\* Parser.SyntaxNode: nodes of a tree are numbered in depth-first pre-order,
\* node 1 is the root, parent = 0 for the root.
NoTree == [text |-> <<"?">>, nodes |-> <<>>, edits |-> <<>>]
NoChange == [start |-> -1, oldEnd |-> -1, newEnd |-> -1]

RECURSIVE RunEnd(_, _)
RunEnd(text, i) ==
    IF i < Len(text) /\ text[i + 1] \in Digits THEN RunEnd(text, i + 1) ELSE i

\* An operator between two numbers is an operator of the expression, any
\* other one is an ERROR node.
OperatorType(text, i) ==
    IF i >= 1 /\ i + 2 <= Len(text) /\ text[i] \in Digits /\ text[i + 2] \in Digits
    THEN "operator"
    ELSE "ERROR"

RECURSIVE Tokens(_, _)
Tokens(text, i) ==
    IF i >= Len(text) THEN <<>>
    ELSE IF text[i + 1] \in Digits
         THEN <<[type |-> "number", startIndex |-> i,
                 endIndex |-> RunEnd(text, i), parent |-> 1]>>
              \o Tokens(text, RunEnd(text, i))
         ELSE <<[type |-> OperatorType(text, i), startIndex |-> i,
                 endIndex |-> i + 1, parent |-> 1]>>
              \o Tokens(text, i + 1)

\* parser.parse(text, previousTree?): the language of the model has numbers
\* (runs of digits) and one-character operators under one root.
ParseNodes(text) ==
    <<[type |-> "expression", startIndex |-> 0, endIndex |-> Len(text), parent |-> 0]>>
    \o Tokens(text, 0)

Parse(text, old) == [text |-> text, nodes |-> ParseNodes(text), edits |-> <<>>]

\* tree.edit(delta): the tree, marked with the edit for the next parse.
TreeEdit(t, change) == [t EXCEPT !.edits = Append(@, change)]

\* ---------------------------------------------------- tree navigation
ChildCount(t, n) == Cardinality({m \in 1..Len(t.nodes) : t.nodes[m].parent = n})
FirstChild(t, n) == n + 1
HasNextSibling(t, n) ==
    \E m \in (n + 1)..Len(t.nodes) : t.nodes[m].parent = t.nodes[n].parent
NextSibling(t, n) ==
    CHOOSE m \in (n + 1)..Len(t.nodes) :
        /\ t.nodes[m].parent = t.nodes[n].parent
        /\ \A k \in (n + 1)..(m - 1) : t.nodes[k].parent # t.nodes[n].parent
HasParent(t, n) == t.nodes[n].parent # 0

\* --------------------------------------------------- findSyntaxNode
\* The mutually recursive walk; the result is lastNode (0 for undefined).
RECURSIVE Find(_, _, _, _)
RECURSIVE FindNext(_, _, _, _)
\* Faulty variants of the walk: a start equal to the offset accepted; lastNode
\* reset to the parent on the way up.
FindInclusive(t, index, cursor, lastNode) ==
    IF t.nodes[cursor].startIndex <= index
    THEN IF ChildCount(t, cursor) > 0
         THEN Find(t, index, FirstChild(t, cursor), cursor)
         ELSE FindNext(t, index, cursor, cursor)
    ELSE lastNode

FindNextResetLast(t, index, cursor, lastNode) ==
    IF HasNextSibling(t, cursor)
    THEN Find(t, index, NextSibling(t, cursor), lastNode)
    ELSE IF HasParent(t, cursor)
         THEN FindNext(t, index, t.nodes[cursor].parent, t.nodes[cursor].parent)
         ELSE lastNode

Find(t, index, cursor, lastNode) ==
    IF t.nodes[cursor].startIndex < index
    THEN IF ChildCount(t, cursor) > 0
         THEN Find(t, index, FirstChild(t, cursor), cursor)
         ELSE FindNext(t, index, cursor, cursor)
    ELSE lastNode

FindNext(t, index, cursor, lastNode) ==
    IF HasNextSibling(t, cursor)
    THEN Find(t, index, NextSibling(t, cursor), lastNode)
    ELSE IF HasParent(t, cursor)
         THEN FindNext(t, index, t.nodes[cursor].parent, lastNode)
         ELSE lastNode

FindSyntaxNode(t, index) == Find(t, index, 1, 0)

\* ----------------------------------------------------- getHighlight
\* query.matches(root) of the highlight query: "number" captures every
\* number node as @number; "none" is the undefined query.
RECURSIVE NumberCaptures(_, _)
NumberCaptures(t, n) ==
    IF n > Len(t.nodes) THEN <<>>
    ELSE IF t.nodes[n].type = "number"
         THEN <<[node |-> n, name |-> "number"]>> \o NumberCaptures(t, n + 1)
         ELSE NumberCaptures(t, n + 1)

QueryCaptures(query, t) == IF query = "number" THEN NumberCaptures(t, 1) ELSE <<>>

\* The Map of getHighlight, in insertion order: one entry per node.
RECURSIVE CollectCaptures(_, _)
CollectCaptures(caps, map) ==
    IF caps = <<>> THEN map
    ELSE LET v == Head(caps) IN
         IF \E i \in DOMAIN map : map[i].node = v.node
         THEN CollectCaptures(Tail(caps),
                  [i \in DOMAIN map |->
                      IF map[i].node = v.node
                      THEN [map[i] EXCEPT !.names = Append(@, v.name)]
                      ELSE map[i]])
         ELSE CollectCaptures(Tail(caps), Append(map, [node |-> v.node, names |-> <<v.name>>]))

\* Array.prototype.sort with a comparator on startIndex (a stable sort).
RECURSIVE InsertByStart(_, _)
\* Faulty variant: an entry is put before the entries of the same start.
InsertByStartBeforeEqual(sorted, e) ==
    IF sorted = <<>> THEN <<e>>
    ELSE IF e.startIndex <= Head(sorted).startIndex
         THEN <<e>> \o sorted
         ELSE <<Head(sorted)>> \o InsertByStart(Tail(sorted), e)

InsertByStart(sorted, e) ==
    IF sorted = <<>> THEN <<e>>
    ELSE IF e.startIndex < Head(sorted).startIndex
         THEN <<e>> \o sorted
         ELSE <<Head(sorted)>> \o InsertByStart(Tail(sorted), e)

RECURSIVE SortByStart(_)
SortByStart(entries) ==
    IF entries = <<>> THEN <<>>
    ELSE InsertByStart(SortByStart(SubSeq(entries, 1, Len(entries) - 1)),
                       entries[Len(entries)])

\* The entries of the Map of the captures caps, sorted.
CollectHighlight(caps, t) ==
    LET map == CollectCaptures(caps, <<>>)
    IN SortByStart([i \in DOMAIN map |->
           [node |-> map[i].node,
            startIndex |-> t.nodes[map[i].node].startIndex,
            endIndex |-> t.nodes[map[i].node].endIndex,
            names |-> map[i].names]])

GetHighlight(query, t) == CollectHighlight(QueryCaptures(query, t), t)

\* ------------------------------------------------------- renderTree
\* The loop over the highlight entries: source is the text not yet emitted,
\* index the offset it starts at.
RECURSIVE RenderLoop(_, _, _, _)
RenderLoop(hl, src, index, res) ==
    IF hl = <<>> THEN [source |-> src, index |-> index, result |-> res]
    ELSE LET node == Head(hl)
             pre == Slice(src, 0, node.startIndex - index)
             text == Slice(src, node.startIndex - index, node.endIndex - index)
             rest == SliceFrom(src, node.endIndex - index)
             r1 == IF pre # <<>>
                   THEN Append(res, [names |-> <<>>, text |-> pre, offset |-> index])
                   ELSE res
             r2 == IF text # <<>>
                   THEN Append(r1, [names |-> node.names, text |-> text,
                                    offset |-> node.startIndex])
                   ELSE r1
         IN RenderLoop(Tail(hl), rest, node.endIndex, r2)

\* Faulty variant: the text after the last tagged node is dropped.
SegmentsNoTrailing(src, hl) == RenderLoop(hl, src, 0, <<>>).result

Segments(src, hl) ==
    LET l == RenderLoop(hl, src, 0, <<>>)
    IN IF l.source # <<>>
       THEN Append(l.result, [names |-> <<>>, text |-> l.source, offset |-> l.index])
       ELSE l.result

\* The spans appended to codeArea: class list, text node, data-offset attribute.
Spans(res) ==
    [i \in DOMAIN res |->
        [classList |-> {res[i].names[j] : j \in DOMAIN res[i].names},
         text |-> res[i].text,
         dataOffset |-> NumberToString(res[i].offset)]]

\* --------------------------------------------------------- findNode
NoPosition == [node |-> 0, index |-> -1]

RECURSIVE FindNodeFrom(_, _, _)
\* Faulty variant: the end of a span excluded.
FindNodeFromStrict(area, index, k) ==
    IF k > Len(area) THEN NoPosition
    ELSE LET offset == ParseInt(area[k].dataOffset) IN
         IF offset <= index /\ offset + Len(area[k].text) > index
         THEN [node |-> k, index |-> index - offset]
         ELSE FindNodeFrom(area, index, k + 1)

FindNodeFrom(area, index, k) ==
    IF k > Len(area) THEN NoPosition
    ELSE LET offset == ParseInt(area[k].dataOffset) IN
         IF offset <= index /\ offset + Len(area[k].text) >= index
         THEN [node |-> k, index |-> index - offset]
         ELSE FindNodeFrom(area, index, k + 1)

FindNode(area, index) == FindNodeFrom(area, index, 1)

\* ================================================================ state
VARIABLES
    source,          \* this.source
    tree,            \* this._tree
    selection,       \* this._selection (NoSelection for undefined)
    highlightQuery,  \* this.highlightQuery ("none" for undefined)
    codeArea,        \* the children of this.codeArea
    hostSelection,   \* window.getSelection()
    listeners,       \* the handlers subscribed to events.beforeChange / afterChange
    stack,           \* the call stack of the engine's methods, innermost last
    highlight,       \* renderTree's local: the result of getHighlight
    result,          \* renderTree's local: the segment list
    findIndex,       \* the argument of findSyntaxNode / findNode
    findResult,      \* the result of findSyntaxNode (a node, 0 for undefined)
    position,        \* the result of findNode
    phase,           \* which call of an isolated run has been made
    ops,             \* the options CodeLine.create was called with
    hostListeners,   \* the listeners added to root and document, per event type
    disposables,     \* the CompositeDisposable of the engine and of each widget
    widgets,         \* the view of each widget of this.widgets
    matches          \* what query.matches returned to an isolated getHighlight call

\* The state of the widgets and of what the engine and they registered, and
\* the input of an isolated getHighlight call: no step of a cycle writes them.
widgetVars == <<ops, hostListeners, disposables, widgets, matches>>

vars == <<source, tree, selection, highlightQuery, codeArea, hostSelection,
          listeners, stack, highlight, result, findIndex, findResult, position, phase,
          ops, hostListeners, disposables, widgets, matches>>

NoSelection == [start |-> -1, end |-> -1]

\* A Range of the host selection: a container is the text node of the k-th
\* span of codeArea (k >= 1) or codeArea itself (0).
NoRange == [rangeCount |-> 0, startContainer |-> 0, startOffset |-> 0,
            endContainer |-> 0, endOffset |-> 0]

\* ------------------------------------------ selection <-> host range
\* getOffset of fromSelectionChange: the data-offset of the closest code node.
GetOffset(area, container) ==
    IF container >= 1 /\ container <= Len(area)
    THEN ParseInt(area[container].dataOffset)
    ELSE 0

FromSelectionChange(area, host, sel) ==
    IF host.rangeCount > 0
    THEN [start |-> GetOffset(area, host.startContainer) + host.startOffset,
          end |-> GetOffset(area, host.endContainer) + host.endOffset]
    ELSE sel

\* positionToOffset: the offset recorded on the position's span plus the
\* local index, as fromSelectionChange computes it.
PositionToOffset(area, pos) == GetOffset(area, pos.node) + pos.index

\* Range.setStart then Range.setEnd: an end before the start collapses the range.
Before(n1, i1, n2, i2) == n1 < n2 \/ (n1 = n2 /\ i1 < i2)

MakeRange(start, end) ==
    IF Before(end.node, end.index, start.node, start.index)
    THEN [rangeCount |-> 1, startContainer |-> end.node, startOffset |-> end.index,
          endContainer |-> end.node, endOffset |-> end.index]
    ELSE [rangeCount |-> 1, startContainer |-> start.node, startOffset |-> start.index,
          endContainer |-> end.node, endOffset |-> end.index]

\* Faulty variant: both boundaries of the range taken from the start position.
SelectionToRangeStartOnly(area, startIndex, endIndex) ==
    LET start == FindNode(area, startIndex)
        end == FindNode(area, endIndex)
    IN IF start # NoPosition /\ end # NoPosition THEN MakeRange(start, start) ELSE NoRange

\* selectionToRange: NoRange for undefined.
SelectionToRange(area, startIndex, endIndex) ==
    LET start == FindNode(area, startIndex)
        end == FindNode(area, endIndex)
    IN IF start # NoPosition /\ end # NoPosition THEN MakeRange(start, end) ELSE NoRange

\* Faulty variant: the ranges of the host are removed before the range is known.
RestoreSelectionClears(area, sel, host) ==
    IF sel # NoSelection
    THEN LET range == SelectionToRange(area, sel.start, sel.end)
         IN IF range # NoRange THEN range ELSE NoRange
    ELSE host

\* restoreSelection: the host selection afterwards.
RestoreSelection(area, sel, host) ==
    IF sel # NoSelection
    THEN LET range == SelectionToRange(area, sel.start, sel.end)
         IN IF range # NoRange THEN range ELSE host
    ELSE host

\* codeArea.innerHTML = '': a range inside the removed nodes collapses to codeArea.
ClearArea(host) ==
    IF host.rangeCount > 0
    THEN [rangeCount |-> 1, startContainer |-> 0, startOffset |-> 0,
          endContainer |-> 0, endOffset |-> 0]
    ELSE host

\* ------------------------------------------------------------ frames
\* parsed: the arguments of the frame's parser.parse call, NoParse before it.
\* before, after: the emissions of beforeChange and afterChange completed
\* during the call, those of the calls made by its handlers included.
\* last: the text of the mutation started last during the call.
NoParse == [text |-> <<"?">>, old |-> NoTree]

Frame(op, pc, caller, newText, change, start, end, text, pre) ==
    [op |-> op, pc |-> pc, h |-> 0, caller |-> caller, newText |-> newText,
     change |-> change, start |-> start, end |-> end, text |-> text,
     pre |-> pre, trace |-> <<>>, seen |-> NoSelection, nested |-> FALSE,
     parsed |-> NoParse, before |-> 0, after |-> 0,
     last |-> IF op = "sourceChange" THEN newText ELSE pre]

SourceChangeFrame(caller, newText, change) ==
    Frame("sourceChange", "beforeChange", caller, newText, change, 0, 0, <<>>, <<>>)

ReplaceTextFrame(caller, start, end, text) ==
    Frame("replaceText", "setSelection", caller, <<>>, NoChange, start, end, text, source)

Top == stack[Len(stack)]
Idle == stack = <<>>
Running(op, pc) == ~Idle /\ Top.op = op /\ Top.pc = pc
\* renderTree is at step pc, called by sourceChange or directly.
Rendering(pc) == ~Idle /\ Top.op \in {"sourceChange", "renderTree"} /\ Top.pc = pc
SetTop(f) == [stack EXCEPT ![Len(stack)] = f]
Depth == Cardinality({i \in DOMAIN stack : stack[i].op = "sourceChange"})

\* The order of the steps of sourceChange and renderTree.
\* Faulty variant: afterChange emitted before the selection is restored.
NextStepEmitEarly(pc) ==
    CASE pc = "beforeChange" -> "swap"
      [] pc = "swap" -> "segments"
      [] pc = "segments" -> "capture"
      [] pc = "capture" -> "render"
      [] pc = "render" -> "afterChange"
      [] pc = "afterChange" -> "restore"
      [] pc = "restore" -> "return"

NextStep(pc) ==
    CASE pc = "beforeChange" -> "swap"
      [] pc = "swap" -> "segments"
      [] pc = "segments" -> "capture"
      [] pc = "capture" -> "render"
      [] pc = "render" -> "restore"
      [] pc = "restore" -> "afterChange"
      [] pc = "afterChange" -> "return"

Done(f, step) ==
    [f EXCEPT !.pc = NextStep(step), !.trace = Append(@, step), !.h = 0,
              !.before = IF step = "beforeChange" THEN @ + 1 ELSE @,
              !.after = IF step = "afterChange" THEN @ + 1 ELSE @]

\* One more handler of the emission has been called; after the last one the
\* emission is over.
Advance(f, ev, count) == IF f.h + 1 >= count THEN Done(f, ev) ELSE [f EXCEPT !.h = @ + 1]

\* ============================================ registrations and widgets
WidgetNames == {"error", "complete"}

\* What a CompositeDisposable holds: the removal of a listener from a host
\* event source (root, document) or the subscription to an engine event.
HostRegistration(type) == [kind |-> "host", type |-> type]
EventRegistration(type) == [kind |-> "event", type |-> type]

\* listenInput and listenSelectionChange.
EngineRegistrations == {HostRegistration("input"), HostRegistration("selectionchange")}

\* The listeners init of a widget registers: CodeCompleteWidget a keydown
\* listener on root and an afterChange handler, CodeErrorWidget an afterChange
\* handler.
WidgetListeners(w) ==
    IF w = "complete"
    THEN {HostRegistration("keydown"), EventRegistration("afterChange")}
    ELSE {EventRegistration("afterChange")}

\* Faulty variant: the removal of the keydown listener is not added.
WidgetRegistrationsNoHotKey(w) == {EventRegistration("afterChange")}

\* What init of a widget adds to its disposables: the removal of each listener
\* it registers.
WidgetRegistrations(w) ==
    IF w = "complete"
    THEN {HostRegistration("keydown"), EventRegistration("afterChange")}
    ELSE {EventRegistration("afterChange")}

RECURSIVE Remove(_, _)
Remove(seq, x) ==
    IF seq = <<>> THEN <<>>
    ELSE IF Head(seq) = x THEN Remove(Tail(seq), x)
    ELSE <<Head(seq)>> \o Remove(Tail(seq), x)

\* The listener lists after the registrations regs of owner were released.
Released(lists, kind, owner, regs) ==
    [t \in DOMAIN lists |->
        IF [kind |-> kind, type |-> t] \in regs THEN Remove(lists[t], owner) ELSE lists[t]]

Elements(seq) == {seq[i] : i \in DOMAIN seq}

\* The owners of the listeners of type that init registers, in order.
RECURSIVE Registered(_, _, _)
Registered(ws, kind, type) ==
    IF ws = <<>> THEN <<>>
    ELSE IF [kind |-> kind, type |-> type] \in WidgetListeners(Head(ws))
         THEN <<Head(ws)>> \o Registered(Tail(ws), kind, type)
         ELSE Registered(Tail(ws), kind, type)

\* The views of the widgets before init: errorArea without underline,
\* completeArea not connected and without item, _selectIndex = 0.
NoView ==
    [error |-> [attached |-> FALSE, disposed |-> FALSE, underlines |-> <<>>],
     complete |-> [attached |-> FALSE, disposed |-> FALSE, connected |-> FALSE,
                   children |-> <<>>, selectIndex |-> 0]]

AttachedView(ws) == [w \in WidgetNames |-> [NoView[w] EXCEPT !.attached = w \in Elements(ws)]]

\* No engine: the state of the isolated runs of one method.
Detached ==
    /\ ops = [highlight |-> "number", widgets |-> <<>>]
    /\ hostListeners = [input |-> <<>>, selectionchange |-> <<>>, keydown |-> <<>>]
    /\ disposables = [engine |-> {}, error |-> {}, complete |-> {}]
    /\ widgets = NoView

\* The constructor's highlight query: undefined ("none") when no query text is
\* given and when language.query throws on it.
HighlightSources == {"number", "invalid", "absent"}

\* Faulty variant: a query text that does not compile falls back to a query.
CompileQueryFallback(text) == IF text = "absent" THEN "none" ELSE "number"

CompileQuery(text) == IF text = "number" THEN "number" ELSE "none"

\* ================================================================ Init
\* The state after CodeLine.create: the constructor, then init, whose
\* sourceChange(this.source) rendered the initial text.
InitialArea(text, query) == Spans(Segments(text, GetHighlight(query, Parse(text, NoTree))))

\* create(root, options): the handlers in observers are subscribed to both
\* events by the caller; the widgets are attached after the first render.
Created(text, options, observers) ==
    /\ source = text
    /\ ops = options
    /\ highlightQuery = CompileQuery(options.highlight)
    /\ tree = Parse(text, NoTree)
    /\ selection = NoSelection
    /\ codeArea = InitialArea(text, CompileQuery(options.highlight))
    /\ hostSelection = NoRange
    /\ listeners = [beforeChange |-> observers,
                    afterChange |-> observers \o Registered(options.widgets, "event", "afterChange")]
    /\ hostListeners = [input |-> <<"engine">>, selectionchange |-> <<"engine">>,
                        keydown |-> Registered(options.widgets, "host", "keydown")]
    /\ disposables = [o \in {"engine"} \cup WidgetNames |->
                         IF o = "engine" THEN EngineRegistrations
                         ELSE IF o \in Elements(options.widgets) THEN WidgetRegistrations(o)
                         ELSE {}]
    /\ widgets = AttachedView(options.widgets)
    /\ stack = <<>>
    /\ highlight = GetHighlight(CompileQuery(options.highlight), Parse(text, NoTree))
    /\ result = Segments(text, GetHighlight(CompileQuery(options.highlight), Parse(text, NoTree)))
    /\ findIndex = 0
    /\ findResult = 0
    /\ position = NoPosition
    /\ phase = "engine"
    /\ matches = <<>>

Init ==
    \E text \in Texts :
        Created(text, [highlight |-> "number", widgets |-> <<>>], <<"observer">>)

\* ===================================================== sourceChange
\* this.events.beforeChange.emit() / afterChange.emit(): the next handler runs.
Emitting(ev) == Rendering(ev) /\ Top.h < Len(listeners[ev])

\* A handler that only reads the engine.
HandlerObserve(ev) ==
    /\ Emitting(ev)
    /\ listeners[ev][Top.h + 1] = "observer"
    /\ stack' = SetTop(Advance([Top EXCEPT !.seen = IF ev = "afterChange" THEN selection ELSE @],
                                ev, Len(listeners[ev])))
    /\ UNCHANGED <<source, tree, selection, highlightQuery, codeArea, hostSelection,
                   listeners, highlight, result, findIndex, findResult, position, phase,
                   widgetVars>>

\* An afterChange handler that calls sourceChange(newText) itself.
HandlerSourceChange(newText) ==
    /\ Emitting("afterChange")
    /\ listeners.afterChange[Top.h + 1] = "observer"
    /\ Depth < MaxDepth
    /\ stack' = Append(SetTop([Top EXCEPT !.seen = selection, !.nested = TRUE]),
                       SourceChangeFrame("handler", newText, NoChange))
    /\ UNCHANGED <<source, tree, selection, highlightQuery, codeArea, hostSelection,
                   listeners, highlight, result, findIndex, findResult, position, phase,
                   widgetVars>>

\* this.source = newText and the edit-or-reparse of the tree.
\* Faulty variant: the previous tree handed to the parser without a change, too.
ParseArgumentKeepTree(t, change) == IF change # NoChange THEN TreeEdit(t, change) ELSE t

ParseArgument(t, change) == IF change # NoChange THEN TreeEdit(t, change) ELSE NoTree

\* Faulty variant: with a change the tree is patched and not parsed again.
NewTreeEditOnly(t, newText, change) ==
    IF change # NoChange THEN TreeEdit(t, change) ELSE Parse(newText, NoTree)

\* The tree sourceChange assigns.
NewTree(t, newText, change) == Parse(newText, ParseArgument(t, change))

Swap ==
    /\ Running("sourceChange", "swap")
    /\ source' = Top.newText
    /\ tree' = NewTree(tree, Top.newText, Top.change)
    /\ stack' = SetTop(Done([Top EXCEPT !.parsed = [text |-> Top.newText,
                                                  old |-> ParseArgument(tree, Top.change)]],
                             "swap"))
    /\ UNCHANGED <<selection, highlightQuery, codeArea, hostSelection, listeners,
                   highlight, result, findIndex, findResult, position, phase,
                   widgetVars>>

\* Faulty variant: the segments are appended to those of the previous render.
ComputeSegmentsAppend ==
    /\ Running("sourceChange", "segments")
    /\ highlight' = GetHighlight(highlightQuery, tree)
    /\ result' = result \o Segments(source, GetHighlight(highlightQuery, tree))
    /\ stack' = SetTop(Done(Top, "segments"))
    /\ UNCHANGED <<source, tree, selection, highlightQuery, codeArea, hostSelection,
                   listeners, findIndex, findResult, position, phase,
                   widgetVars>>

\* renderTree: getHighlight and the loop that builds result.
ComputeSegments ==
    /\ Rendering("segments")
    /\ highlight' = GetHighlight(highlightQuery, tree)
    /\ result' = Segments(source, GetHighlight(highlightQuery, tree))
    /\ stack' = SetTop(Done(Top, "segments"))
    /\ UNCHANGED <<source, tree, selection, highlightQuery, codeArea, hostSelection,
                   listeners, findIndex, findResult, position, phase,
                   widgetVars>>

\* renderTree: this.fromSelectionChange().
CaptureSelection ==
    /\ Rendering("capture")
    /\ selection' = FromSelectionChange(codeArea, hostSelection, selection)
    /\ stack' = SetTop(Done(Top, "capture"))
    /\ UNCHANGED <<source, tree, highlightQuery, codeArea, hostSelection, listeners,
                   highlight, result, findIndex, findResult, position, phase,
                   widgetVars>>

\* Faulty variant: codeArea is not emptied before the spans are appended.
RenderSpansAppend ==
    /\ Rendering("render")
    /\ codeArea' = codeArea \o Spans(result)
    /\ hostSelection' = hostSelection
    /\ stack' = SetTop(Done(Top, "render"))
    /\ UNCHANGED <<source, tree, selection, highlightQuery, listeners, highlight, result,
                   findIndex, findResult, position, phase, widgetVars>>

\* renderTree: codeArea is emptied and one span per segment is appended.
RenderSpans ==
    /\ Rendering("render")
    /\ codeArea' = Spans(result)
    /\ hostSelection' = ClearArea(hostSelection)
    /\ stack' = SetTop(Done(Top, "render"))
    /\ UNCHANGED <<source, tree, selection, highlightQuery, listeners, highlight, result,
                   findIndex, findResult, position, phase,
                   widgetVars>>

\* renderTree: this.restoreSelection().
RestoreStep ==
    /\ Rendering("restore")
    /\ hostSelection' = RestoreSelection(codeArea, selection, hostSelection)
    /\ stack' = SetTop(Done(Top, "restore"))
    /\ UNCHANGED <<source, tree, selection, highlightQuery, codeArea, listeners, highlight,
                   result, findIndex, findResult, position, phase,
                   widgetVars>>

\* replaceText after its sourceChange returned: this.setSelection(...).
ReplaceTextSetSelection ==
    /\ Running("replaceText", "setSelection")
    /\ LET cursor == Top.start + Len(Top.text)
           sel == [start |-> cursor, end |-> cursor]
       IN /\ selection' = sel
          /\ hostSelection' = RestoreSelection(codeArea, sel, hostSelection)
    /\ stack' = SetTop([Top EXCEPT !.pc = "return"])
    /\ UNCHANGED <<source, tree, highlightQuery, codeArea, listeners, highlight, result,
                   findIndex, findResult, position, phase,
                   widgetVars>>

\* The frame of the caller when the call of frame f returns to it: replaceText
\* goes on after its sourceChange, an emission goes on after its handler.
Resume(caller, f) ==
    LET c == [caller EXCEPT !.before = @ + f.before, !.after = @ + f.after,
                            !.last = f.last]
    IN IF caller.op = "replaceText"
       THEN [c EXCEPT !.seen = f.seen, !.nested = f.nested]
       ELSE IF caller.op \in {"sourceChange", "renderTree"}
            THEN Advance(c, "afterChange", Len(listeners.afterChange))
            ELSE c

Unwind == SubSeq(stack, 1, Len(stack) - 1)

\* Faulty variant: the cycle a handler's mutation returns into writes its own
\* text back.
ReturnRestoresText ==
    /\ ~Idle
    /\ Top.pc = "return"
    /\ stack' = IF Len(stack) > 1
                THEN [Unwind EXCEPT ![Len(stack) - 1] = Resume(@, Top)]
                ELSE Unwind
    /\ source' = IF Len(stack) > 1 /\ stack[Len(stack) - 1].op = "sourceChange"
                 THEN stack[Len(stack) - 1].newText
                 ELSE source
    /\ UNCHANGED <<tree, selection, highlightQuery, codeArea, hostSelection,
                   listeners, highlight, result, findIndex, findResult, position, phase,
                   widgetVars>>

\* A method returns to its caller.
Return ==
    /\ ~Idle
    /\ Top.pc = "return"
    /\ stack' = IF Len(stack) > 1
                THEN [Unwind EXCEPT ![Len(stack) - 1] = Resume(@, Top)]
                ELSE Unwind
    /\ UNCHANGED <<source, tree, selection, highlightQuery, codeArea, hostSelection,
                   listeners, highlight, result, findIndex, findResult, position, phase,
                   widgetVars>>

\* ====================================================== replaceText
\* Faulty variant: the replaced range is kept.
ReplacedTextKeepRange(src, start, end, text) ==
    Slice(src, 0, start) \o text \o SliceFrom(src, start)

\* The text replaceText passes to sourceChange.
ReplacedText(src, start, end, text) == Slice(src, 0, start) \o text \o SliceFrom(src, end)

\* The change replaceText passes to sourceChange: none.
ReplaceTextChange(start, end, text) == NoChange

\* The frames of a replaceText call: its own and that of its sourceChange call.
ReplaceTextFrames(caller, start, end, text) ==
    <<ReplaceTextFrame(caller, start, end, text),
      SourceChangeFrame("replaceText", ReplacedText(source, start, end, text),
                        ReplaceTextChange(start, end, text))>>

InsertTexts == {t \in Texts : Len(t) <= 1}
Fits(start, end, text) == Len(ReplacedText(source, start, end, text)) <= MaxLen

\* An afterChange handler that calls replaceText itself.
HandlerReplaceText(start, end, text) ==
    /\ Emitting("afterChange")
    /\ listeners.afterChange[Top.h + 1] = "observer"
    /\ Depth < MaxDepth
    /\ Fits(start, end, text)
    /\ stack' = SetTop([Top EXCEPT !.seen = selection, !.nested = TRUE])
                \o ReplaceTextFrames("handler", start, end, text)
    /\ UNCHANGED <<source, tree, selection, highlightQuery, codeArea, hostSelection,
                   listeners, highlight, result, findIndex, findResult, position, phase,
                   widgetVars>>

\* ================================================= calls and host events
\* A change that describes the replacement of the whole old text.
WholeChange(old, new) == [start |-> 0, oldEnd |-> Len(old), newEnd |-> Len(new)]

\* The caller's sourceChange(newText, change?).
CallSourceChange(newText, change) ==
    /\ Idle
    /\ stack' = <<SourceChangeFrame("api", newText, change)>>
    /\ UNCHANGED <<source, tree, selection, highlightQuery, codeArea, hostSelection,
                   listeners, highlight, result, findIndex, findResult, position, phase,
                   widgetVars>>

\* The caller's replaceText(start, end, text).
CallReplaceText(start, end, text) ==
    /\ Idle
    /\ Fits(start, end, text)
    /\ stack' = ReplaceTextFrames("api", start, end, text)
    /\ UNCHANGED <<source, tree, selection, highlightQuery, codeArea, hostSelection,
                   listeners, highlight, result, findIndex, findResult, position, phase,
                   widgetVars>>

\* The caller's setSelection(start, end).
CallSetSelection(start, end) ==
    /\ Idle
    /\ selection' = [start |-> start, end |-> end]
    /\ hostSelection' = RestoreSelection(codeArea, [start |-> start, end |-> end], hostSelection)
    /\ UNCHANGED <<source, tree, highlightQuery, codeArea, listeners, stack, highlight,
                   result, findIndex, findResult, position, phase,
                   widgetVars>>

\* The caller's restoreSelection().
CallRestoreSelection ==
    /\ Idle
    /\ hostSelection' = RestoreSelection(codeArea, selection, hostSelection)
    /\ UNCHANGED <<source, tree, selection, highlightQuery, codeArea, listeners, stack,
                   highlight, result, findIndex, findResult, position, phase,
                   widgetVars>>

\* The positions of the host's document inside codeArea.
Positions(area) ==
    IF area = <<>> THEN {[node |-> 0, index |-> 0]}
    ELSE {[node |-> k, index |-> i] : k \in DOMAIN area, i \in 0..MaxLen}

\* The input listener: the user edited the text of codeArea, the caret is at
\* position p, and the listener calls sourceChange(codeArea.innerText).
Input(newText, p) ==
    /\ Idle
    /\ p \in Positions(codeArea)
    /\ GetOffset(codeArea, p.node) + p.index <= Len(newText)
    /\ hostSelection' = MakeRange(p, p)
    /\ stack' = <<SourceChangeFrame("input", newText, NoChange)>>
    /\ UNCHANGED <<source, tree, selection, highlightQuery, codeArea, listeners,
                   highlight, result, findIndex, findResult, position, phase,
                   widgetVars>>

\* The selectionchange listener: the user selected from p to q.
SelectionChange(p, q) ==
    /\ Idle
    /\ p \in Positions(codeArea) /\ q \in Positions(codeArea)
    /\ p.node >= 1 => p.index <= Len(codeArea[p.node].text)
    /\ q.node >= 1 => q.index <= Len(codeArea[q.node].text)
    /\ ~Before(q.node, q.index, p.node, p.index)
    /\ hostSelection' = MakeRange(p, q)
    /\ selection' = FromSelectionChange(codeArea, MakeRange(p, q), selection)
    /\ UNCHANGED <<source, tree, highlightQuery, codeArea, listeners, stack, highlight,
                   result, findIndex, findResult, position, phase,
                   widgetVars>>

\* What a re-entrant handler writes.
NestedTexts == {<<"1">>}

AllPositions == {[node |-> k, index |-> i] : k \in 0..MaxLen, i \in 0..MaxLen}

Next ==
    \/ \E newText \in Texts : CallSourceChange(newText, NoChange)
    \/ \E newText \in Texts : CallSourceChange(newText, WholeChange(source, newText))
    \/ \E s \in 0..MaxLen, e \in 0..MaxLen, t \in InsertTexts :
          s <= e /\ CallReplaceText(s, e, t)
    \/ \E s \in Offsets, e \in Offsets : CallSetSelection(s, e)
    \/ CallRestoreSelection
    \/ \E newText \in Texts, p \in AllPositions : Input(newText, p)
    \/ \E p \in AllPositions, q \in AllPositions : SelectionChange(p, q)
    \/ HandlerObserve("beforeChange")
    \/ HandlerObserve("afterChange")
    \/ \E newText \in NestedTexts : HandlerSourceChange(newText)
    \/ \E t \in NestedTexts : HandlerReplaceText(0, 0, t)
    \/ Swap
    \/ ComputeSegments
    \/ CaptureSelection
    \/ RenderSpans
    \/ RestoreStep
    \/ ReplaceTextSetSelection
    \/ Return

Spec == Init /\ [][Next]_vars

\* ======================================= sourceChange with any change
\* The changes a caller can pass: sourceChange checks none of them.
Changes == {[start |-> a, oldEnd |-> b, newEnd |-> c] :
               a \in 0..MaxLen, b \in 0..MaxLen, c \in 0..MaxLen}

Malformed(change) ==
    change # NoChange /\ (change.start > change.oldEnd \/ change.start > change.newEnd)

\* tree.edit with a malformed change and the parse that follows: the parser
\* may reuse nodes of the previous tree where the edit says nothing changed,
\* so the result is the tree of the new text or keeps the previous nodes.
MalformedParses(t, newText, change) ==
    {Parse(newText, TreeEdit(t, change)),
     [Parse(newText, TreeEdit(t, change)) EXCEPT !.nodes = t.nodes]}

SwapMalformed ==
    /\ Running("sourceChange", "swap")
    /\ Malformed(Top.change)
    /\ source' = Top.newText
    /\ tree' \in MalformedParses(tree, Top.newText, Top.change)
    /\ stack' = SetTop(Done([Top EXCEPT !.parsed = [text |-> Top.newText,
                                                  old |-> ParseArgument(tree, Top.change)]],
                             "swap"))
    /\ UNCHANGED <<selection, highlightQuery, codeArea, hostSelection, listeners,
                   highlight, result, findIndex, findResult, position, phase,
                   widgetVars>>

DeltaNext ==
    \/ \E newText \in Texts, change \in Changes : CallSourceChange(newText, change)
    \/ HandlerObserve("beforeChange")
    \/ HandlerObserve("afterChange")
    \/ Swap
    \/ SwapMalformed
    \/ ComputeSegments
    \/ CaptureSelection
    \/ RenderSpans
    \/ RestoreStep
    \/ Return

SpecDelta == Init /\ [][DeltaNext]_vars

\* ================================================ renderTree called directly
RenderTreeFrame(caller) ==
    Frame("renderTree", "segments", caller, source, NoChange, 0, 0, <<>>, <<>>)

\* The caller's renderTree().
CallRenderTree ==
    /\ Idle
    /\ stack' = <<RenderTreeFrame("api")>>
    /\ UNCHANGED <<source, tree, selection, highlightQuery, codeArea, hostSelection,
                   listeners, highlight, result, findIndex, findResult, position, phase,
                   widgetVars>>

\* An emission without a subscribed handler.
EmitNothing(ev) ==
    /\ Rendering(ev)
    /\ Len(listeners[ev]) = 0
    /\ stack' = SetTop(Done(Top, ev))
    /\ UNCHANGED <<source, tree, selection, highlightQuery, codeArea, hostSelection,
                   listeners, highlight, result, findIndex, findResult, position, phase,
                   widgetVars>>

\* Engines created with a highlight query text that compiles, with one that
\* does not and with none; the caller mutates, renders and sets the selection.
OptionsInit ==
    \E text \in Texts, h \in HighlightSources :
        Created(text, [highlight |-> h, widgets |-> <<>>], <<"observer">>)

OptionsNext ==
    \/ \E newText \in Texts : CallSourceChange(newText, NoChange)
    \/ \E newText \in Texts : CallSourceChange(newText, WholeChange(source, newText))
    \/ CallRenderTree
    \/ \E s \in Offsets, e \in Offsets : CallSetSelection(s, e)
    \/ HandlerObserve("beforeChange")
    \/ HandlerObserve("afterChange")
    \/ Swap
    \/ ComputeSegments
    \/ CaptureSelection
    \/ RenderSpans
    \/ RestoreStep
    \/ Return

SpecOptions == OptionsInit /\ [][OptionsNext]_vars

\* ====================================================== CodeErrorWidget
\* getError(rootNode): the nodes that are errors, in pre-order.
RECURSIVE GetError(_, _)
GetError(t, n) ==
    IF n > Len(t.nodes) THEN <<>>
    ELSE IF t.nodes[n].type = "ERROR"
         THEN <<n>> \o GetError(t, n + 1)
         ELSE GetError(t, n + 1)

\* The underlines of errorArea: one for each error whose range exists.
RECURSIVE Underlines(_, _, _)
Underlines(area, t, errors) ==
    IF errors = <<>> THEN <<>>
    ELSE LET node == t.nodes[Head(errors)]
             range == SelectionToRange(area, node.startIndex, node.endIndex)
         IN IF range # NoRange
            THEN <<range>> \o Underlines(area, t, Tail(errors))
            ELSE Underlines(area, t, Tail(errors))

\* The afterChange handler of CodeErrorWidget.
HandlerError ==
    /\ Emitting("afterChange")
    /\ listeners.afterChange[Top.h + 1] = "error"
    /\ widgets' = [widgets EXCEPT !.error.underlines =
                                      Underlines(codeArea, tree, GetError(tree, 1))]
    /\ stack' = SetTop(Advance(Top, "afterChange", Len(listeners.afterChange)))
    /\ UNCHANGED <<source, tree, selection, highlightQuery, codeArea, hostSelection,
                   listeners, highlight, result, findIndex, findResult, position, phase,
                   ops, hostListeners, disposables, matches>>

\* =================================================== CodeCompleteWidget
\* ops.matches: one matcher, whose query captures the numbers and whose run
\* is buildComplete of the playground: it offers the options that the text of
\* the node is a proper prefix of, each to replace the whole node.
CompleteOptions == <<<<"1", "1">>, <<"1", "+">>, <<"1", "1", "+">>>>

StartsWith(s, prefix) == Len(prefix) <= Len(s) /\ SubSeq(s, 1, Len(prefix)) = prefix

NodeText(t, n) == SubSeq(t.text, t.nodes[n].startIndex + 1, t.nodes[n].endIndex)

RECURSIVE BuildComplete(_, _, _, _)
BuildComplete(options, sel, t, n) ==
    IF options = <<>> THEN <<>>
    ELSE IF StartsWith(Head(options), NodeText(t, n)) /\ NodeText(t, n) # Head(options)
         THEN <<[text |-> Head(options),
                 offsetStart |-> t.nodes[n].startIndex - sel.start,
                 offsetEnd |-> t.nodes[n].endIndex - sel.end]>>
              \o BuildComplete(Tail(options), sel, t, n)
         ELSE BuildComplete(Tail(options), sel, t, n)

CompleteItems(t, sel, name, node) == BuildComplete(CompleteOptions, sel, t, node)

\* The result list of the afterChange handler for the captures caps.
RECURSIVE CompleteResult(_, _, _)
CompleteResult(t, sel, caps) ==
    IF caps = <<>> THEN <<>>
    ELSE LET node == t.nodes[Head(caps).node] IN
         IF node.endIndex < sel.start \/ node.startIndex > sel.start
         THEN CompleteResult(t, sel, Tail(caps))
         ELSE CompleteItems(t, sel, Head(caps).name, Head(caps).node)
              \o CompleteResult(t, sel, Tail(caps))

\* select(index): indices are 0-based, children[i + 1] is the child at i.
Select(c, index) ==
    LET c1 == IF c.selectIndex + 1 \in DOMAIN c.children
              THEN [c EXCEPT !.children[c.selectIndex + 1].selected = FALSE]
              ELSE c
        c2 == [c1 EXCEPT !.selectIndex = index]
    IN IF index + 1 \in DOMAIN c2.children
       THEN [c2 EXCEPT !.children[index + 1].selected = TRUE]
       ELSE c2

CloseComplete(c) == [c EXCEPT !.connected = FALSE]

\* The children of completeArea: the click listener of each keeps start, end
\* and its item.
MenuItems(start, end, list) ==
    [i \in DOMAIN list |->
        [text |-> list[i].text, start |-> start, end |-> end,
         offsetStart |-> list[i].offsetStart, offsetEnd |-> list[i].offsetEnd,
         selected |-> FALSE]]

\* Faulty variant: the item selected before stays the selected one.
OpenCompleteKeepIndex(c, area, start, end, list) ==
    LET c1 == [c EXCEPT !.connected = TRUE, !.children = <<>>]
    IN IF SelectionToRange(area, start, end) = NoRange THEN c1
       ELSE Select([c1 EXCEPT !.children = MenuItems(start, end, list)], c.selectIndex)

\* openComplete(start, end, list).
OpenComplete(c, area, start, end, list) ==
    LET c1 == [c EXCEPT !.connected = TRUE, !.children = <<>>]
    IN IF SelectionToRange(area, start, end) = NoRange THEN c1
       ELSE Select([c1 EXCEPT !.children = MenuItems(start, end, list)], 0)

\* Faulty variant: the menu is left as it is when there is nothing to offer.
AfterChangeCompleteKeepsOpen(c, sel, t, area) ==
    IF sel = NoSelection \/ sel.start # sel.end THEN c
    ELSE LET list == CompleteResult(t, sel, NumberCaptures(t, 1)) IN
         IF list = <<>> THEN c
         ELSE OpenComplete(CloseComplete(c), area, sel.start, sel.end, list)

\* The afterChange handler of CodeCompleteWidget.
AfterChangeComplete(c, sel, t, area) ==
    IF sel = NoSelection \/ sel.start # sel.end THEN CloseComplete(c)
    ELSE LET list == CompleteResult(t, sel, NumberCaptures(t, 1)) IN
         IF list = <<>> THEN CloseComplete(c)
         ELSE OpenComplete(CloseComplete(c), area, sel.start, sel.end, list)

HandlerComplete ==
    /\ Emitting("afterChange")
    /\ listeners.afterChange[Top.h + 1] = "complete"
    /\ widgets' = [widgets EXCEPT !.complete = AfterChangeComplete(@, selection, tree, codeArea)]
    /\ stack' = SetTop(Advance(Top, "afterChange", Len(listeners.afterChange)))
    /\ UNCHANGED <<source, tree, selection, highlightQuery, codeArea, hostSelection,
                   listeners, highlight, result, findIndex, findResult, position, phase,
                   ops, hostListeners, disposables, matches>>

\* The click listener of an item: replaceText, then closeComplete.
RealStart(child) == child.start + child.offsetStart
RealEnd(child) == child.end + child.offsetEnd

\* The frame of the listener: the item clicked and the text at the click.
ClickFrame(child) ==
    Frame("click", "closeComplete", "host", <<>>, NoChange, child.start, child.end,
          child.text, source) @@ [item |-> child]

ClickFrames(child) ==
    <<ClickFrame(child)>>
    \o ReplaceTextFrames("click", RealStart(child), RealEnd(child), child.text)

\* Does the text after the click of child fit the bound of the model?
ClickFits(child) == Fits(RealStart(child), RealEnd(child), child.text)

Keys == {"ArrowDown", "ArrowUp", "Enter", "Escape"}

\* The indices an item of the menu can have.
ItemIndices == 0..(Len(CompleteOptions) - 1)

\* The keydown listener of initHotKey.
KeyDown(key) ==
    /\ Idle
    /\ "complete" \in Elements(hostListeners.keydown)
    /\ LET c == widgets.complete
           clicked == key = "Enter" /\ c.connected /\ c.selectIndex + 1 \in DOMAIN c.children
       IN /\ clicked => ClickFits(c.children[c.selectIndex + 1])
          /\ stack' = IF clicked THEN ClickFrames(c.children[c.selectIndex + 1]) ELSE stack
          /\ widgets' =
               IF ~c.connected THEN widgets
               ELSE IF key = "ArrowDown"
                    THEN [widgets EXCEPT !.complete =
                             Select(c, Min(Len(c.children) - 1, c.selectIndex + 1))]
               ELSE IF key = "ArrowUp"
                    THEN [widgets EXCEPT !.complete = Select(c, Max(0, c.selectIndex - 1))]
               ELSE IF key = "Escape"
                    THEN [widgets EXCEPT !.complete = CloseComplete(c)]
               ELSE widgets
    /\ UNCHANGED <<source, tree, selection, highlightQuery, codeArea, hostSelection,
                   listeners, highlight, result, findIndex, findResult, position, phase,
                   ops, hostListeners, disposables, matches>>

\* A click on the item at index i of the connected completeArea.
Click(i) ==
    /\ Idle
    /\ widgets.complete.connected
    /\ i + 1 \in DOMAIN widgets.complete.children
    /\ ClickFits(widgets.complete.children[i + 1])
    /\ stack' = ClickFrames(widgets.complete.children[i + 1])
    /\ UNCHANGED <<source, tree, selection, highlightQuery, codeArea, hostSelection,
                   listeners, highlight, result, findIndex, findResult, position, phase,
                   widgetVars>>

\* The mouse enters the item at index i.
MouseEnter(i) ==
    /\ Idle
    /\ widgets.complete.connected
    /\ i + 1 \in DOMAIN widgets.complete.children
    /\ widgets' = [widgets EXCEPT !.complete = Select(@, i)]
    /\ UNCHANGED <<source, tree, selection, highlightQuery, codeArea, hostSelection,
                   listeners, stack, highlight, result, findIndex, findResult, position,
                   phase, ops, hostListeners, disposables, matches>>

\* Faulty variant: the listener returns without closing the menu.
ClickCloseKeepsOpen ==
    /\ Running("click", "closeComplete")
    /\ stack' = Unwind
    /\ UNCHANGED <<source, tree, selection, highlightQuery, codeArea, hostSelection,
                   listeners, highlight, result, findIndex, findResult, position, phase,
                   widgetVars>>

\* The click listener after its replaceText returned: closeComplete.
ClickClose ==
    /\ Running("click", "closeComplete")
    /\ widgets' = [widgets EXCEPT !.complete = CloseComplete(@)]
    /\ stack' = Unwind
    /\ UNCHANGED <<source, tree, selection, highlightQuery, codeArea, hostSelection,
                   listeners, highlight, result, findIndex, findResult, position, phase,
                   ops, hostListeners, disposables, matches>>

\* ============================================================ disposal
\* CodeLine.dispose(): this.disposables.dispose().
EngineDispose ==
    /\ Idle
    /\ hostListeners' = Released(hostListeners, "host", "engine", disposables.engine)
    /\ listeners' = Released(listeners, "event", "engine", disposables.engine)
    /\ disposables' = [disposables EXCEPT !.engine = {}]
    /\ UNCHANGED <<source, tree, selection, highlightQuery, codeArea, hostSelection,
                   stack, highlight, result, findIndex, findResult, position, phase,
                   ops, widgets, matches>>

\* Widget.dispose(): this.disposables.dispose().
WidgetDispose(w) ==
    /\ Idle
    /\ widgets[w].attached
    /\ hostListeners' = Released(hostListeners, "host", w, disposables[w])
    /\ listeners' = Released(listeners, "event", w, disposables[w])
    /\ disposables' = [disposables EXCEPT ![w] = {}]
    /\ widgets' = [widgets EXCEPT ![w].disposed = TRUE]
    /\ UNCHANGED <<source, tree, selection, highlightQuery, codeArea, hostSelection,
                   stack, highlight, result, findIndex, findResult, position, phase, ops,
                   matches>>

\* The host dispatches an input or a selectionchange event to the listeners
\* that are registered.
DispatchInput(newText, p) ==
    /\ "engine" \in Elements(hostListeners.input)
    /\ Input(newText, p)

DispatchSelectionChange(p, q) ==
    /\ "engine" \in Elements(hostListeners.selectionchange)
    /\ SelectionChange(p, q)

\* The text of codeArea after one keystroke: the last character deleted or a
\* character typed at the end.
TypedTexts(text) ==
    (IF text = <<>> THEN {} ELSE {SubSeq(text, 1, Len(text) - 1)})
    \cup (IF Len(text) < MaxLen THEN {Append(text, c) : c \in Chars} ELSE {})

\* An engine created with the error widget and the completion widget.
WidgetsInit ==
    \E text \in Texts :
        Created(text, [highlight |-> "number", widgets |-> <<"error", "complete">>], <<>>)

WidgetsNext ==
    \/ \E newText \in TypedTexts(source), p \in AllPositions : DispatchInput(newText, p)
    \/ \E p \in AllPositions : DispatchSelectionChange(p, p)
    \/ \E q \in AllPositions : DispatchSelectionChange([node |-> 1, index |-> 0], q)
    \/ \E key \in Keys : KeyDown(key)
    \/ \E i \in ItemIndices : Click(i)
    \/ \E i \in ItemIndices : MouseEnter(i)
    \/ ClickClose
    \/ EngineDispose
    \/ \E w \in WidgetNames : WidgetDispose(w)
    \/ EmitNothing("beforeChange")
    \/ EmitNothing("afterChange")
    \/ HandlerError
    \/ HandlerComplete
    \/ Swap
    \/ ComputeSegments
    \/ CaptureSelection
    \/ RenderSpans
    \/ RestoreStep
    \/ ReplaceTextSetSelection
    \/ Return

SpecWidgets == WidgetsInit /\ [][WidgetsNext]_vars

\* ======================================================== CodeLine.create
\* init() after listenInput and listenSelectionChange: it calls
\* sourceChange(this.source) and then init of each widget.
InitFrame == Frame("init", "widgets", "api", <<>>, NoChange, 0, 0, <<>>, <<>>)

InitFrames(text) == <<InitFrame, SourceChangeFrame("init", text, NoChange)>>

\* The listener lists after init of widget w registered its listeners.
Listening(lists, kind, w) ==
    [t \in DOMAIN lists |->
        IF [kind |-> kind, type |-> t] \in WidgetListeners(w)
        THEN Append(lists[t], w)
        ELSE lists[t]]

\* Faulty variant: the widgets are initialised without waiting for the first
\* sourceChange to return.
InitWidgetEarly(w) ==
    /\ ~Idle
    /\ stack[1].op = "init"
    /\ stack[1].h < Len(ops.widgets)
    /\ w = ops.widgets[stack[1].h + 1]
    /\ listeners' = Listening(listeners, "event", w)
    /\ hostListeners' = Listening(hostListeners, "host", w)
    /\ disposables' = [disposables EXCEPT ![w] = WidgetRegistrations(w)]
    /\ widgets' = [widgets EXCEPT ![w].attached = TRUE]
    /\ stack' = IF Len(stack) = 1 /\ stack[1].h + 1 >= Len(ops.widgets)
                THEN Unwind
                ELSE [stack EXCEPT ![1].h = @ + 1]
    /\ UNCHANGED <<source, tree, selection, highlightQuery, codeArea, hostSelection,
                   highlight, result, findIndex, findResult, position, phase, ops,
                   matches>>

\* this.widgets.forEach(v => v.init(this)): init of the next widget; init()
\* returns after the last one.
InitWidget(w) ==
    /\ Running("init", "widgets")
    /\ Top.h < Len(ops.widgets)
    /\ w = ops.widgets[Top.h + 1]
    /\ listeners' = Listening(listeners, "event", w)
    /\ hostListeners' = Listening(hostListeners, "host", w)
    /\ disposables' = [disposables EXCEPT ![w] = WidgetRegistrations(w)]
    /\ widgets' = [widgets EXCEPT ![w].attached = TRUE]
    /\ stack' = IF Top.h + 1 >= Len(ops.widgets)
                THEN Unwind
                ELSE SetTop([Top EXCEPT !.h = @ + 1])
    /\ UNCHANGED <<source, tree, selection, highlightQuery, codeArea, hostSelection,
                   highlight, result, findIndex, findResult, position, phase, ops,
                   matches>>

\* create(root, options) has run the constructor and the first statements of
\* init: nothing is parsed or rendered, the engine listens to the host.
Constructed(text, options) ==
    /\ source = text
    /\ ops = options
    /\ highlightQuery = CompileQuery(options.highlight)
    /\ tree = NoTree
    /\ selection = NoSelection
    /\ codeArea = <<>>
    /\ hostSelection = NoRange
    /\ listeners = [beforeChange |-> <<>>, afterChange |-> <<>>]
    /\ hostListeners = [input |-> <<"engine">>, selectionchange |-> <<"engine">>,
                        keydown |-> <<>>]
    /\ disposables = [engine |-> EngineRegistrations, error |-> {}, complete |-> {}]
    /\ widgets = NoView
    /\ stack = InitFrames(text)
    /\ highlight = <<>>
    /\ result = <<>>
    /\ findIndex = 0
    /\ findResult = 0
    /\ position = NoPosition
    /\ phase = "engine"
    /\ matches = <<>>

CreateInit ==
    \E text \in Texts :
        Constructed(text, [highlight |-> "number", widgets |-> <<"error", "complete">>])

CreateNext ==
    \/ \E w \in WidgetNames : InitWidget(w)
    \/ WidgetsNext

SpecCreate == CreateInit /\ [][CreateNext]_vars

\* ============================================ query.matches throws
\* Faulty variant: the failure is caught and the render goes on untagged.
MatchesThrowsDegrades ==
    /\ Rendering("segments")
    /\ highlightQuery # "none"
    /\ highlight' = <<>>
    /\ result' = Segments(source, <<>>)
    /\ stack' = SetTop(Done(Top, "segments"))
    /\ UNCHANGED <<source, tree, selection, highlightQuery, codeArea, hostSelection,
                   listeners, findIndex, findResult, position, phase, widgetVars>>

\* getHighlight: this.highlightQuery.matches(rootNode) throws. Nothing in
\* getHighlight, renderTree or sourceChange catches: the call is left where
\* it is ("thrown"), before result is built.
MatchesThrows ==
    /\ Rendering("segments")
    /\ highlightQuery # "none"
    /\ stack' = SetTop([Top EXCEPT !.pc = "thrown"])
    /\ UNCHANGED <<source, tree, selection, highlightQuery, codeArea, hostSelection,
                   listeners, highlight, result, findIndex, findResult, position, phase,
                   widgetVars>>

\* The exception leaves the method: replaceText, which called sourceChange,
\* does not catch it either and does not reach its setSelection; a call made
\* from outside hands it to its caller.
Propagate ==
    /\ ~Idle
    /\ Top.pc = "thrown"
    /\ Top.caller \in {"api", "input", "replaceText"}
    /\ stack' = IF Len(stack) > 1
                THEN [Unwind EXCEPT ![Len(stack) - 1].pc = "thrown"]
                ELSE Unwind
    /\ UNCHANGED <<source, tree, selection, highlightQuery, codeArea, hostSelection,
                   listeners, highlight, result, findIndex, findResult, position, phase,
                   widgetVars>>

\* Engines with and without a highlight query whose query.matches may throw
\* in any render.
ThrowNext ==
    \/ \E newText \in Texts : CallSourceChange(newText, NoChange)
    \/ \E newText \in Texts : CallSourceChange(newText, WholeChange(source, newText))
    \/ \E s \in 0..MaxLen, e \in 0..MaxLen, t \in InsertTexts :
          s <= e /\ CallReplaceText(s, e, t)
    \/ CallRenderTree
    \/ HandlerObserve("beforeChange")
    \/ HandlerObserve("afterChange")
    \/ Swap
    \/ ComputeSegments
    \/ MatchesThrows
    \/ Propagate
    \/ CaptureSelection
    \/ RenderSpans
    \/ RestoreStep
    \/ ReplaceTextSetSelection
    \/ Return

SpecThrow == OptionsInit /\ [][ThrowNext]_vars

\* ====================================== renderTree and findNode alone
\* One render of a text with a list of tagged nodes as getHighlight returns
\* it (sorted by start, every node inside the text), then one findNode call.
MaxRenderLen == 3
RenderTexts == UNION {[1..n -> Chars] : n \in 0..MaxRenderLen}
NameLists == {<<"number">>, <<"keyword", "number">>}

TaggedNodes(text) ==
    {[node |-> 0, startIndex |-> a, endIndex |-> b, names |-> ns] :
        a \in 0..Len(text), b \in 0..Len(text), ns \in NameLists}

HighlightLists(text) ==
    {hl \in UNION {[1..n -> {e \in TaggedNodes(text) : e.startIndex <= e.endIndex}] :
                      n \in 0..MaxCaptures} :
        \A i \in 1..(Len(hl) - 1) : hl[i].startIndex <= hl[i + 1].startIndex}

RenderInit ==
    /\ source \in RenderTexts
    /\ highlight \in HighlightLists(source)
    /\ highlightQuery = "number"
    /\ tree = NoTree
    /\ selection = NoSelection
    /\ codeArea = <<>>
    /\ hostSelection = NoRange
    /\ listeners = [beforeChange |-> <<>>, afterChange |-> <<>>]
    /\ stack = <<>>
    /\ result = <<>>
    /\ findIndex = 0
    /\ findResult = 0
    /\ position = NoPosition
    /\ phase = "input"
    /\ matches = <<>>
    /\ Detached

RenderAlone ==
    /\ phase = "input"
    /\ result' = Segments(source, highlight)
    /\ codeArea' = Spans(Segments(source, highlight))
    /\ phase' = "rendered"
    /\ UNCHANGED <<source, tree, selection, highlightQuery, hostSelection, listeners, stack,
                   highlight, findIndex, findResult, position,
                   widgetVars>>

FindNodeAlone(index) ==
    /\ phase = "rendered"
    /\ findIndex' = index
    /\ position' = FindNode(codeArea, index)
    /\ phase' = "found"
    /\ UNCHANGED <<source, tree, selection, highlightQuery, codeArea, hostSelection,
                   listeners, stack, highlight, result, findResult,
                   widgetVars>>

RenderNext ==
    \/ RenderAlone
    \/ \E index \in -1..(MaxRenderLen + 1) : FindNodeAlone(index)

SpecRender == RenderInit /\ [][RenderNext]_vars

\* ============================================== findSyntaxNode alone
\* One findSyntaxNode call on a tree of at most MaxNodes nodes whose start
\* offsets do not decrease in depth-first pre-order, as in a tree of the parser.
IsPreOrder(parents) ==
    /\ parents[1] = 0
    /\ \A n \in 2..Len(parents) :
          /\ parents[n] \in 1..(n - 1)
          /\ \A m \in (parents[n] + 1)..(n - 1) : parents[m] >= parents[n]

TreeShapes == {ps \in UNION {[1..n -> 0..(n - 1)] : n \in 1..MaxNodes} : IsPreOrder(ps)}

StartLists(n) ==
    {st \in [1..n -> 0..MaxLen] : \A i \in 1..(n - 1) : st[i] <= st[i + 1]}

WalkTree(ps, st) ==
    [text |-> <<>>, edits |-> <<>>,
     nodes |-> [n \in DOMAIN ps |->
                   [type |-> "node", startIndex |-> st[n], endIndex |-> MaxLen,
                    parent |-> ps[n]]]]

WalkTrees == UNION {{WalkTree(ps, st) : st \in StartLists(Len(ps))} : ps \in TreeShapes}

FindInit ==
    /\ tree \in WalkTrees
    /\ source = <<>>
    /\ highlightQuery = "number"
    /\ selection = NoSelection
    /\ codeArea = <<>>
    /\ hostSelection = NoRange
    /\ listeners = [beforeChange |-> <<>>, afterChange |-> <<>>]
    /\ stack = <<>>
    /\ highlight = <<>>
    /\ result = <<>>
    /\ findIndex = 0
    /\ findResult = 0
    /\ position = NoPosition
    /\ phase = "input"
    /\ matches = <<>>
    /\ Detached

FindSyntaxNodeAlone(index) ==
    /\ phase = "input"
    /\ findIndex' = index
    /\ findResult' = FindSyntaxNode(tree, index)
    /\ phase' = "found"
    /\ UNCHANGED <<source, tree, selection, highlightQuery, codeArea, hostSelection,
                   listeners, stack, highlight, result, position,
                   widgetVars>>

FindAloneNext == \E index \in 0..(MaxLen + 1) : FindSyntaxNodeAlone(index)

SpecFind == FindInit /\ [][FindAloneNext]_vars

\* ===================================== findSyntaxNode, one call at a time
\* The walk of findSyntaxNode as the calls of find and findNext it makes:
\* cursor is the node of the tree cursor, visited the nodes find was called on.
WalkFrame(index) ==
    [op |-> "findSyntaxNode", pc |-> "find", caller |-> "api", index |-> index,
     cursor |-> 1, lastNode |-> 0, visited |-> <<>>]

\* find(index, cursor).
FindStep(t, f) ==
    LET g == [f EXCEPT !.visited = Append(@, f.cursor)] IN
    IF t.nodes[f.cursor].startIndex < f.index
    THEN IF ChildCount(t, f.cursor) > 0
         THEN [g EXCEPT !.lastNode = f.cursor, !.cursor = FirstChild(t, f.cursor)]
         ELSE [g EXCEPT !.lastNode = f.cursor, !.pc = "findNext"]
    ELSE [g EXCEPT !.pc = "return"]

\* Faulty variant: after going up find is called on the parent again.
FindNextStepRevisit(t, f) ==
    IF HasNextSibling(t, f.cursor)
    THEN [f EXCEPT !.cursor = NextSibling(t, f.cursor), !.pc = "find"]
    ELSE IF HasParent(t, f.cursor)
         THEN [f EXCEPT !.cursor = t.nodes[f.cursor].parent, !.pc = "find"]
         ELSE [f EXCEPT !.pc = "return"]

\* findNext(cursor).
FindNextStep(t, f) ==
    IF HasNextSibling(t, f.cursor)
    THEN [f EXCEPT !.cursor = NextSibling(t, f.cursor), !.pc = "find"]
    ELSE IF HasParent(t, f.cursor)
         THEN [f EXCEPT !.cursor = t.nodes[f.cursor].parent]
         ELSE [f EXCEPT !.pc = "return"]

\* Trees of at most MaxNodes nodes with any start offsets.
AnyTrees ==
    UNION {{WalkTree(ps, st) : st \in [1..Len(ps) -> 0..MaxLen]} : ps \in TreeShapes}

WalkInit ==
    /\ tree \in AnyTrees
    /\ source = <<>>
    /\ highlightQuery = "number"
    /\ selection = NoSelection
    /\ codeArea = <<>>
    /\ hostSelection = NoRange
    /\ listeners = [beforeChange |-> <<>>, afterChange |-> <<>>]
    /\ stack = <<>>
    /\ highlight = <<>>
    /\ result = <<>>
    /\ findIndex = 0
    /\ findResult = 0
    /\ position = NoPosition
    /\ phase = "input"
    /\ matches = <<>>
    /\ Detached

\* The caller's findSyntaxNode(index): this.tree.walk() and the first find.
CallFindSyntaxNode(index) ==
    /\ phase = "input"
    /\ findIndex' = index
    /\ stack' = <<WalkFrame(index)>>
    /\ phase' = "walking"
    /\ UNCHANGED <<source, tree, selection, highlightQuery, codeArea, hostSelection,
                   listeners, highlight, result, findResult, position, widgetVars>>

WalkFind ==
    /\ Running("findSyntaxNode", "find")
    /\ stack' = SetTop(FindStep(tree, Top))
    /\ UNCHANGED <<source, tree, selection, highlightQuery, codeArea, hostSelection,
                   listeners, highlight, result, findIndex, findResult, position, phase,
                   widgetVars>>

WalkFindNext ==
    /\ Running("findSyntaxNode", "findNext")
    /\ stack' = SetTop(FindNextStep(tree, Top))
    /\ UNCHANGED <<source, tree, selection, highlightQuery, codeArea, hostSelection,
                   listeners, highlight, result, findIndex, findResult, position, phase,
                   widgetVars>>

\* return lastNode.
WalkReturn ==
    /\ Running("findSyntaxNode", "return")
    /\ findResult' = Top.lastNode
    /\ stack' = <<>>
    /\ phase' = "found"
    /\ UNCHANGED <<source, tree, selection, highlightQuery, codeArea, hostSelection,
                   listeners, highlight, result, findIndex, position, widgetVars>>

WalkNext ==
    \/ \E index \in 0..(MaxLen + 1) : CallFindSyntaxNode(index)
    \/ WalkFind
    \/ WalkFindNext
    \/ WalkReturn

\* The call is synchronous: once made it runs on until it returns.
SpecWalk == WalkInit /\ [][WalkNext]_vars /\ WF_vars(WalkNext)

\* ================================================= getHighlight alone
\* One getHighlight call on the matches query.matches returns: a list of
\* matches, each a list of captures of a node object under a name.
CapturedNodes == {1, 2}
CaptureNames == {"number", "keyword"}
Captures == [node : CapturedNodes, name : CaptureNames]
Matches == UNION {[1..n -> Captures] : n \in 0..2}
MatchLists == UNION {[1..n -> Matches] : n \in 0..MaxCaptures}

\* matches.forEach(v => v.captures.forEach(...)): the captures in the order
\* they are visited.
RECURSIVE Flatten(_)
Flatten(ms) == IF ms = <<>> THEN <<>> ELSE Head(ms) \o Flatten(Tail(ms))

\* The node objects of the captures, with their start offsets.
CapturedTree(starts) ==
    [text |-> <<>>, edits |-> <<>>,
     nodes |-> [n \in DOMAIN starts |->
                   [type |-> "node", startIndex |-> starts[n], endIndex |-> MaxLen,
                    parent |-> 0]]]

CollectInit ==
    /\ tree \in {CapturedTree(starts) : starts \in [1..2 -> 0..MaxLen]}
    /\ matches \in MatchLists
    /\ highlightQuery \in {"number", "none"}
    /\ source = <<>>
    /\ selection = NoSelection
    /\ codeArea = <<>>
    /\ hostSelection = NoRange
    /\ listeners = [beforeChange |-> <<>>, afterChange |-> <<>>]
    /\ stack = <<>>
    /\ highlight = <<>>
    /\ result = <<>>
    /\ findIndex = 0
    /\ findResult = 0
    /\ position = NoPosition
    /\ phase = "input"
    /\ Detached

\* getHighlight with a query, and without one (matches is undefined).
GetHighlightAlone ==
    /\ phase = "input"
    /\ highlight' = IF highlightQuery = "none" THEN <<>>
                    ELSE CollectHighlight(Flatten(matches), tree)
    /\ phase' = "collected"
    /\ UNCHANGED <<source, tree, selection, highlightQuery, codeArea, hostSelection,
                   listeners, stack, result, findIndex, findResult, position,
                   widgetVars>>

CollectNext == GetHighlightAlone

SpecCollect == CollectInit /\ [][CollectNext]_vars

\* ============================================================== claims
RECURSIVE Concat(_)
Concat(res) == IF res = <<>> THEN <<>> ELSE Head(res).text \o Concat(Tail(res))

NonOverlapping(hl) == \A i \in 1..(Len(hl) - 1) : hl[i].endIndex <= hl[i + 1].startIndex

Tiles(res, text) ==
    /\ \A i \in DOMAIN res : res[i].text # <<>>
    /\ res # <<>> => res[1].offset = 0
    /\ \A i \in 1..(Len(res) - 1) : res[i].offset + Len(res[i].text) = res[i + 1].offset
    /\ res # <<>> => res[Len(res)].offset + Len(res[Len(res)].text) = Len(text)
    /\ (res = <<>>) <=> (text = <<>>)
    /\ Concat(res) = text

CycleOrder ==
    <<"beforeChange", "swap", "segments", "capture", "render", "restore", "afterChange">>

IsPrefix(a, b) == Len(a) <= Len(b) /\ a = SubSeq(b, 1, Len(a))

\* C2 (cycle order): every sourceChange call performs, in this order and once
\* each, the beforeChange emission, the buffer and tree swap, the segment
\* computation, the capture, the render and the restore of the selection and
\* the afterChange emission, and has done all of them when it returns.
C2_CycleOrder ==
    \A i \in DOMAIN stack :
        stack[i].op = "sourceChange" =>
            /\ IsPrefix(stack[i].trace, CycleOrder)
            /\ stack[i].pc = "return" => stack[i].trace = CycleOrder

\* A cycle started by the input listener is about to return.
C2_Witness == Running("sourceChange", "return") /\ Top.caller = "input" /\ Len(stack) = 1

TreeOf(text) ==
    /\ tree.text = text
    /\ tree.edits = <<>>
    /\ tree.nodes = ParseNodes(text)
    /\ tree.nodes[1].startIndex = 0
    /\ tree.nodes[1].endIndex = Len(text)

C3_AtHandler ==
    /\ (Emitting("beforeChange") \/ Emitting("afterChange")) => TreeOf(source)
    /\ Emitting("afterChange") => source = Top.newText

C3_UntilBeforeChange ==
    (stack' # <<>> /\ stack'[Len(stack')].op = "sourceChange"
        /\ stack'[Len(stack')].pc = "beforeChange")
    => (source' = source /\ tree' = tree)

\* C3 (atomic swap): whenever a handler is called the tree is the tree of the
\* buffer text (root span [0, length)); nothing is written between the call of
\* sourceChange and its beforeChange handlers, and the afterChange handlers of
\* a cycle are first called with the new text.
C3_AtomicSwap == [](C3_AtHandler) /\ [][C3_UntilBeforeChange]_vars

\* An afterChange handler is called in the cycle of a replaceText that
\* changed the text.
C3_Witness ==
    /\ Emitting("afterChange")
    /\ Len(stack) = 2
    /\ stack[1].op = "replaceText"
    /\ stack[1].pre # source

\* C4 (selection final at afterChange): the selection an afterChange handler
\* read in the cycle of a mutating call is the selection when the call returns.
C4_SelectionFinal ==
    (~Idle /\ Top.pc = "return" /\ ~Top.nested) => Top.seen = selection

BeforeRange(f) == SubSeq(f.pre, 1, f.start)
AfterRange(f) == SubSeq(f.pre, f.end + 1, Len(f.pre))

\* C5 (edit round trip): when replaceText(s, e, t) with 0 <= s <= e <= length
\* returns and no handler mutated, the buffer is text[:s] + t + text[e:] and
\* the selection is collapsed at s + length(t).
C5_EditRoundTrip ==
    (Running("replaceText", "return") /\ ~Top.nested
        /\ Top.start <= Top.end /\ Top.end <= Len(Top.pre))
    => /\ source = BeforeRange(Top) \o Top.text \o AfterRange(Top)
       /\ selection = [start |-> Top.start + Len(Top.text),
                       end |-> Top.start + Len(Top.text)]

\* replaceText(0, 0, t) with a one-character t on the empty buffer has returned.
C5_Witness ==
    /\ Running("replaceText", "return")
    /\ ~Top.nested
    /\ Top.pre = <<>> /\ Top.start = 0 /\ Top.end = 0 /\ Top.text = <<"1">>
    /\ source = <<"1">>
    /\ selection = [start |-> 1, end |-> 1]

\* C6 (replaceText is incremental): the sourceChange call of replaceText
\* carries the change {start, oldEnd = end, newEnd = start + length(text)} and
\* parses with the patched tree; the input listener's call carries none.
C6_ReplaceTextIncremental ==
    \A i \in DOMAIN stack :
        /\ (stack[i].op = "sourceChange" /\ stack[i].caller = "replaceText") =>
              /\ stack[i].change =
                    [start |-> stack[i - 1].start, oldEnd |-> stack[i - 1].end,
                     newEnd |-> stack[i - 1].start + Len(stack[i - 1].text)]
              /\ stack[i].parsed # NoParse => stack[i].parsed.old # NoTree
        /\ (stack[i].op = "sourceChange" /\ stack[i].caller = "input") =>
              stack[i].change = NoChange

\* C7 (edit or reparse): a sourceChange call with a change parses the new text
\* with the previous tree patched once with that change, a call without one
\* parses the new text alone; afterwards the buffer is the new text and the
\* tree the parser's result.
C7_EditOrReparse ==
    \A i \in DOMAIN stack :
        (stack[i].op = "sourceChange" /\ stack[i].parsed # NoParse) =>
            /\ stack[i].parsed.text = stack[i].newText
            /\ stack[i].change = NoChange => stack[i].parsed.old = NoTree
            /\ stack[i].change # NoChange =>
                  /\ stack[i].parsed.old.edits = <<stack[i].change>>
                  /\ stack[i].parsed.old.nodes = ParseNodes(stack[i].parsed.old.text)
            /\ (i = Len(stack) /\ ~stack[i].nested) =>
                  /\ source = stack[i].newText
                  /\ tree = Parse(stack[i].newText, stack[i].parsed.old)

\* A call with a change that replaced a different text is about to return.
C7_Witness ==
    /\ Running("sourceChange", "return")
    /\ Top.change # NoChange
    /\ Top.parsed.old.text # Top.newText
    /\ source = Top.newText

StartsBefore(t, index) == {n \in DOMAIN t.nodes : t.nodes[n].startIndex < index}
LastOf(S) == CHOOSE n \in S : \A m \in S : m <= n

\* C8 (findSyntaxNode): on a tree whose start offsets do not decrease in
\* pre-order the result is the last node in pre-order that starts strictly
\* before the offset, and undefined exactly when no node does.
C8_FindSyntaxNode ==
    (phase = "found" /\ tree # NoTree) =>
        findResult = IF StartsBefore(tree, findIndex) = {} THEN 0
                     ELSE LastOf(StartsBefore(tree, findIndex))

\* The walk went up from a last child to reach the result's successor.
C8_Witness ==
    /\ phase = "found"
    /\ Len(tree.nodes) = 4
    /\ tree.nodes[3].parent = 2
    /\ tree.nodes[4].parent = 1
    /\ findResult = 3

FindOffsets == 0..(MaxLen + 1)

\* C9 (lookup monotonicity): on one tree, for offsets o1 < o2, if
\* findSyntaxNode(o1) is a node then findSyntaxNode(o2) is a node whose start
\* is not smaller.
C9_Monotonic ==
    tree # NoTree =>
        \A o1 \in FindOffsets, o2 \in FindOffsets :
            (o1 < o2 /\ FindSyntaxNode(tree, o1) # 0) =>
                /\ FindSyntaxNode(tree, o2) # 0
                /\ tree.nodes[FindSyntaxNode(tree, o1)].startIndex
                     <= tree.nodes[FindSyntaxNode(tree, o2)].startIndex

\* A call that returned a node, on a tree where a larger offset gives a node
\* that starts later.
C9_Witness ==
    /\ phase = "found"
    /\ findResult # 0
    /\ \E o2 \in FindOffsets :
          /\ findIndex < o2
          /\ FindSyntaxNode(tree, o2) # 0
          /\ tree.nodes[findResult].startIndex
               < tree.nodes[FindSyntaxNode(tree, o2)].startIndex

Covers(seg, index) == seg.offset <= index /\ index <= seg.offset + Len(seg.text)
Covering(res, index) == {k \in DOMAIN res : Covers(res[k], index)}
FirstOf(S) == CHOOSE k \in S : \A m \in S : k <= m

\* C10 (findNode): the result is the first rendered segment with
\* offset <= index <= offset + length(text), with the local index
\* index - offset in [0, length(text)], and undefined exactly when no
\* segment satisfies the condition.
C10_FindNode ==
    phase = "found" =>
        IF Covering(result, findIndex) = {} THEN position = NoPosition
        ELSE LET k == FirstOf(Covering(result, findIndex)) IN
             /\ position = [node |-> k, index |-> findIndex - result[k].offset]
             /\ position.index \in 0..Len(result[k].text)

\* An offset on the border of two segments maps to the end of the first.
C10_Witness ==
    /\ phase = "found"
    /\ Len(result) >= 2
    /\ position.node = 1
    /\ position.index = Len(result[1].text)
    /\ Covering(result, findIndex) = {1, 2}

\* C11 (mapping inverse): for a segment list that tiles the text and an offset
\* in 0..length(text), findNode gives a position and the recorded offset of
\* its span plus its local index is the offset again.
C11_MappingInverse ==
    (phase = "found" /\ Tiles(result, source) /\ findIndex \in 0..Len(source))
    => /\ position # NoPosition
       /\ PositionToOffset(codeArea, position) = findIndex

\* The same on the texts that have a segment (used to locate the failure).
C11_NonEmptyText ==
    (phase = "found" /\ Tiles(result, source) /\ findIndex \in 0..Len(source)
        /\ source # <<>>)
    => /\ position # NoPosition
       /\ PositionToOffset(codeArea, position) = findIndex

\* restoreSelection cannot restore: nothing recorded, or an offset of the
\* recorded selection maps to no span.
CannotRestore ==
    \/ selection = NoSelection
    \/ FindNode(codeArea, selection.start) = NoPosition
    \/ FindNode(codeArea, selection.end) = NoPosition

\* C12 (restoreSelection is a no-op when it cannot restore): a restoreSelection
\* that finds no recorded selection or no span for an offset of it leaves the
\* host selection, the recorded selection, the buffer, the tree, the segments
\* and the spans as they are, as a call of its own and as the step of a
\* mutation cycle, which goes on to emit afterChange.
C12_RestoreNoOp ==
    [][(CannotRestore /\ (RestoreStep \/ CallRestoreSelection))
       => /\ hostSelection' = hostSelection
          /\ selection' = selection
          /\ source' = source
          /\ tree' = tree
          /\ result' = result
          /\ codeArea' = codeArea
          /\ RestoreStep => stack'[Len(stack')].pc = "afterChange"]_vars

\* A cycle that shrank the buffer is past its restore step with a recorded
\* selection whose end maps to no span, and the host selection has no range.
C12_Witness ==
    /\ Running("sourceChange", "afterChange")
    /\ selection # NoSelection
    /\ FindNode(codeArea, selection.start) # NoPosition
    /\ FindNode(codeArea, selection.end) = NoPosition
    /\ Len(source) < selection.end
    /\ hostSelection = NoRange

HostStart == [node |-> hostSelection'.startContainer, index |-> hostSelection'.startOffset]
HostEnd == [node |-> hostSelection'.endContainer, index |-> hostSelection'.endOffset]

\* C13 (setSelection): a setSelection(start, end) call records {start, end};
\* if both offsets map to spans the host selection is the range between their
\* positions (collapsed at the end when the end is before the start), else the
\* host selection stays; buffer, tree, segments and spans stay and no cycle
\* is started, so neither event is emitted.
C13_SetSelection ==
    [][\A s \in Offsets, e \in Offsets :
          CallSetSelection(s, e) =>
             /\ selection' = [start |-> s, end |-> e]
             /\ IF FindNode(codeArea, s) # NoPosition /\ FindNode(codeArea, e) # NoPosition
                THEN /\ hostSelection'.rangeCount = 1
                     /\ PositionToOffset(codeArea, HostEnd) = e
                     /\ PositionToOffset(codeArea, HostStart) = IF s <= e THEN s ELSE e
                ELSE hostSelection' = hostSelection
             /\ source' = source /\ tree' = tree /\ result' = result
             /\ codeArea' = codeArea
             /\ stack' = stack /\ listeners' = listeners]_vars

\* After setSelection(0, 2) on a two-character buffer of two spans: the range
\* goes from the start of the first span to the end of the second one.
C13_Witness ==
    /\ Idle
    /\ Len(source) = 2 /\ Len(codeArea) = 2
    /\ selection = [start |-> 0, end |-> 2]
    /\ hostSelection = [rangeCount |-> 1, startContainer |-> 1, startOffset |-> 0,
                        endContainer |-> 2, endOffset |-> 1]

\* C15 (no residual state): whenever no render is under way the segments and
\* the spans are those of an engine constructed on the current buffer text
\* with the same highlight query.
C15_NoResidualState ==
    (Idle \/ Running("sourceChange", "return")) =>
        /\ result = Segments(source, GetHighlight(highlightQuery, Parse(source, NoTree)))
        /\ codeArea = InitialArea(source, highlightQuery)

\* A cycle with a change replaced the empty text by a text with a number and
\* an operator.
C15_Witness ==
    /\ Running("sourceChange", "return")
    /\ Top.change # NoChange
    /\ Top.parsed.old.text = <<>>
    /\ Len(source) = 2
    /\ Len(result) = 2

\* C19 (re-entrant mutation nests): a cycle with another call above it on the
\* stack is inside its afterChange emission, having done every earlier step;
\* a cycle whose handlers did not mutate has emitted each event once when it
\* returns; when the outermost call returns as many beforeChange as afterChange
\* emissions have completed and the buffer and the tree are those of the
\* mutation started last.
C19_ReentrantNesting ==
    /\ \A i \in 1..(Len(stack) - 1) :
          stack[i].op = "sourceChange" =>
             /\ stack[i].pc = "afterChange"
             /\ stack[i].nested
             /\ stack[i].trace = SubSeq(CycleOrder, 1, 6)
             /\ stack[i].before = 1 /\ stack[i].after = 0
    /\ \A i \in DOMAIN stack :
          (stack[i].op = "sourceChange" /\ stack[i].pc = "return" /\ ~stack[i].nested) =>
             /\ stack[i].trace = CycleOrder
             /\ stack[i].before = 1 /\ stack[i].after = 1
    /\ (Len(stack) = 1 /\ Top.pc = "return") =>
          /\ Top.before = Top.after
          /\ Top.before >= 1
          /\ source = Top.last
          /\ TreeOf(Top.last)

\* The outermost sourceChange returns after a handler of its afterChange
\* emission replaced the text: two emissions of each event, the handler's text.
C19_Witness ==
    /\ Len(stack) = 1
    /\ Running("sourceChange", "return")
    /\ Top.nested
    /\ Top.before = 2 /\ Top.after = 2
    /\ Top.newText # source
    /\ source = Top.last

\* C20 (a malformed delta fails fast): a sourceChange call whose change has
\* start > oldEnd or start > newEnd never gets past its entry: no handler is
\* called and no step of the cycle is done for it.
C20_MalformedDeltaRejected ==
    \A i \in DOMAIN stack :
        (stack[i].op = "sourceChange" /\ Malformed(stack[i].change)) =>
            /\ stack[i].pc = "beforeChange"
            /\ stack[i].h = 0
            /\ stack[i].trace = <<>>

\* C14 (idempotent render): a renderTree call made when no mutation is under
\* way computes the segment list that is already there, the same tags, texts
\* and offsets in the same order, and appends the same spans, whether the
\* previous render was that of a mutation or another direct call.
C14_IdempotentRender ==
    [][/\ (Running("renderTree", "segments") /\ ComputeSegments)
            => (result' = result /\ highlight' = highlight)
       /\ (Running("renderTree", "render") /\ RenderSpans)
            => codeArea' = codeArea]_vars

\* A direct renderTree call on a buffer with a tagged and an untagged segment
\* has rendered and is about to return.
C14_Witness ==
    /\ Running("renderTree", "return")
    /\ Len(result) = 2
    /\ result[1].names = <<"number">>
    /\ result[2].names = <<>>
    /\ codeArea = Spans(result)

Untagged(text) ==
    IF text = <<>> THEN <<>> ELSE <<[names |-> <<>>, text |-> text, offset |-> 0]>>

\* C17 (invalid highlight query): an engine created with a query text that
\* does not compile or with none exists and has no query, and whenever no
\* render is under way its segments are the whole buffer as one untagged
\* segment at offset 0, or no segment for the empty buffer.
C17_InvalidQuery ==
    ops.highlight \in {"invalid", "absent"} =>
        /\ highlightQuery = "none"
        /\ (Idle \/ Rendering("return")) =>
              /\ result = Untagged(source)
              /\ codeArea = Spans(Untagged(source))

\* An engine created with a query text that does not compile has rendered a
\* new text that holds a number.
C17_Witness ==
    /\ ops.highlight = "invalid"
    /\ Running("sourceChange", "return")
    /\ source = <<"1", "+">>
    /\ Top.parsed.old.text # source
    /\ result = <<[names |-> <<>>, text |-> <<"1", "+">>, offset |-> 0]>>

HostOwners ==
    Elements(hostListeners.input) \cup Elements(hostListeners.selectionchange)
    \cup Elements(hostListeners.keydown)

EventOwners == Elements(listeners.beforeChange) \cup Elements(listeners.afterChange)

\* C16 (dispose releases everything): once the engine is disposed no listener
\* of the engine or of a widget is left on input, keydown or selectionchange
\* and no widget handler is subscribed to beforeChange or afterChange.
C16_DisposeReleasesAll ==
    disposables.engine = {} =>
        /\ HostOwners = {}
        /\ EventOwners \cap WidgetNames = {}

C18_Registrations ==
    /\ \A w \in WidgetNames :
          /\ widgets[w].disposed => w \notin HostOwners \cup EventOwners
          /\ (widgets[w].attached /\ ~widgets[w].disposed) =>
                \A r \in WidgetListeners(w) :
                    w \in Elements(IF r.kind = "host" THEN hostListeners[r.type]
                                   ELSE listeners[r.type])
    /\ disposables.engine # {} =>
          /\ "engine" \in Elements(hostListeners.input)
          /\ "engine" \in Elements(hostListeners.selectionchange)

C18_NoLateHandler ==
    /\ HandlerError => ~widgets.error.disposed
    /\ HandlerComplete => ~widgets.complete.disposed
    /\ \A key \in Keys : KeyDown(key) => ~widgets.complete.disposed

\* C18 (a widget releases its registrations on detach): a disposed widget has
\* no listener on a host event source and no handler subscribed to an event,
\* no step of an afterChange handler or a keydown listener is one of a disposed
\* widget, and the listeners of the engine and of the widgets not disposed
\* stay registered.
C18_WidgetDetach == []C18_Registrations /\ [][C18_NoLateHandler]_vars

\* After the error widget was disposed a mutation cycle calls the afterChange
\* handler of the completion widget, the only one left.
C18_Witness ==
    /\ widgets.error.disposed
    /\ ~widgets.complete.disposed
    /\ Emitting("afterChange")
    /\ listeners.afterChange = <<"complete">>
    /\ Top.newText # <<>>

C21_AtThrow ==
    \A i \in DOMAIN stack :
        stack[i].pc = "thrown" =>
            /\ i = Len(stack)
            /\ highlightQuery # "none"
            /\ codeArea = Spans(result)
            /\ stack[i].op = "sourceChange" =>
                  /\ stack[i].trace = <<"beforeChange", "swap">>
                  /\ stack[i].before = 1 /\ stack[i].after = 0
                  /\ source = stack[i].newText
                  /\ TreeOf(stack[i].newText)

C21_Propagation ==
    /\ MatchesThrows =>
          /\ stack'[Len(stack')].pc = "thrown"
          /\ UNCHANGED <<source, tree, selection, codeArea, hostSelection, highlight, result>>
    /\ (~Idle /\ Top.pc = "thrown") =>
          /\ Len(stack') = Len(stack) - 1
          /\ stack' # <<>> => stack'[Len(stack')].pc = "thrown"
          /\ \A j \in DOMAIN stack' : stack'[j].after = stack[j].after
          /\ UNCHANGED <<source, tree, selection, codeArea, hostSelection, highlight, result>>

\* C21 (a failure of query.matches is not caught): when query.matches throws
\* in the render of a sourceChange call, beforeChange has been emitted and the
\* buffer and the tree are the new ones, the segments and the spans are those
\* of the last render and stay so, and the call and then its caller are left
\* by the exception with no afterChange emission and no further step.
C21_MatchFailurePropagates == []C21_AtThrow /\ [][C21_Propagation]_vars

\* query.matches threw in the sourceChange of a replaceText that changed the
\* text: the spans still show the previous text.
C21_Witness ==
    /\ Running("sourceChange", "thrown")
    /\ Top.caller = "replaceText"
    /\ source = <<"1", "+">>
    /\ Concat(result) # source
    /\ codeArea = Spans(result)

\* The names under which node was captured, in the order of the captures.
RECURSIVE NamesOf(_, _)
NamesOf(caps, node) ==
    IF caps = <<>> THEN <<>>
    ELSE IF Head(caps).node = node THEN <<Head(caps).name>> \o NamesOf(Tail(caps), node)
    ELSE NamesOf(Tail(caps), node)

FirstCapture(caps, node) ==
    CHOOSE j \in DOMAIN caps : caps[j].node = node /\ \A k \in 1..(j - 1) : caps[k].node # node

\* C22 (getHighlight): the list has one entry for each captured node and none
\* else, an entry carries the names of all captures of its node in capture
\* order, duplicates kept, the entries are in ascending order of start, those
\* of equal start in the order of their first captures; without a query the
\* list is empty.
C22_CollectTaggedNodes ==
    phase # "input" =>
        LET caps == Flatten(matches) IN
        IF highlightQuery = "none" THEN highlight = <<>>
        ELSE /\ {highlight[i].node : i \in DOMAIN highlight} = {caps[j].node : j \in DOMAIN caps}
             /\ \A i \in DOMAIN highlight, j \in DOMAIN highlight :
                   highlight[i].node = highlight[j].node => i = j
             /\ \A i \in DOMAIN highlight :
                   /\ highlight[i].names = NamesOf(caps, highlight[i].node)
                   /\ highlight[i].startIndex = tree.nodes[highlight[i].node].startIndex
             /\ \A i \in DOMAIN highlight, j \in DOMAIN highlight :
                   i < j =>
                      /\ highlight[i].startIndex <= highlight[j].startIndex
                      /\ highlight[i].startIndex = highlight[j].startIndex =>
                            FirstCapture(caps, highlight[i].node)
                               < FirstCapture(caps, highlight[j].node)

\* Node 2 was captured first, then node 1, then node 2 again under the same
\* name, and both start at the same offset: node 2 comes first with two names.
C22_Witness ==
    /\ phase = "collected"
    /\ highlightQuery # "none"
    /\ Len(Flatten(matches)) = 3
    /\ Len(highlight) = 2
    /\ highlight[1].node = 2
    /\ highlight[1].names = <<"number", "number">>
    /\ highlight[1].startIndex = highlight[2].startIndex

\* init() is running its sourceChange.
InitialCycle == Len(stack) >= 2 /\ stack[1].op = "init"

C23_BeforeAttach ==
    InitialCycle =>
        /\ listeners = [beforeChange |-> <<>>, afterChange |-> <<>>]
        /\ hostListeners.keydown = <<>>
        /\ \A w \in WidgetNames : widgets[w] = NoView[w]

C23_AfterAttach ==
    (\A w \in WidgetNames : widgets[w].attached /\ ~widgets[w].disposed) =>
        /\ ~InitialCycle
        /\ listeners.afterChange = ops.widgets
        /\ hostListeners.keydown = <<"complete">>

\* The state init() of the last widget leaves is the one Created describes.
C23_Constructed ==
    /\ tree = Parse(source, NoTree)
    /\ selection = NoSelection
    /\ hostSelection = NoRange
    /\ highlight = GetHighlight(highlightQuery, tree)
    /\ result = Segments(source, highlight)
    /\ codeArea = InitialArea(source, highlightQuery)
    /\ listeners' = [beforeChange |-> <<>>,
                     afterChange |-> Registered(ops.widgets, "event", "afterChange")]
    /\ hostListeners' = [input |-> <<"engine">>, selectionchange |-> <<"engine">>,
                         keydown |-> Registered(ops.widgets, "host", "keydown")]
    /\ disposables' = [o \in {"engine"} \cup WidgetNames |->
                          IF o = "engine" THEN EngineRegistrations
                          ELSE WidgetRegistrations(o)]
    /\ widgets' = AttachedView(ops.widgets)
    /\ UNCHANGED <<source, tree, selection, highlightQuery, codeArea, hostSelection,
                   highlight, result, findIndex, findResult, position, phase, ops,
                   matches>>

C23_Attach ==
    /\ (HandlerError \/ HandlerComplete) => (stack[1].op # "init" /\ stack[1].caller # "init")
    /\ (\E w \in WidgetNames : InitWidget(w)) =>
          /\ Len(stack) = 1
          /\ stack[1].trace = <<>> /\ stack[1].before = 1 /\ stack[1].after = 1
          /\ stack' = <<>> => C23_Constructed

\* C23 (widgets are attached after the initial render): while init runs the
\* first sourceChange no widget is attached and no handler is subscribed, so
\* no step of that cycle is a widget handler; the widgets are initialised after
\* that cycle has emitted both events, and construction ends with the widgets'
\* views as created (no underline, menu closed) for every initial text; from
\* then on the handlers are subscribed for the cycles that follow.
C23_AttachAfterRender ==
    []C23_BeforeAttach /\ []C23_AfterAttach /\ [][C23_Attach]_vars

\* The first cycle ends on a text with an error and nothing is underlined.
C23_Witness ==
    /\ InitialCycle
    /\ Top.pc = "return"
    /\ GetError(tree, 1) # <<>>
    /\ widgets.error.underlines = <<>>
    /\ ~widgets.error.attached

Walking == ~Idle /\ Top.op = "findSyntaxNode"

C24_Walk ==
    /\ Walking =>
          /\ Top.visited = [k \in 1..Len(Top.visited) |-> k]
          /\ Len(Top.visited) <= Len(tree.nodes)
          /\ \A k \in 1..(Len(Top.visited) - 1) :
                tree.nodes[Top.visited[k]].startIndex < Top.index
          /\ (Top.pc # "return" /\ Top.visited # <<>>) =>
                tree.nodes[Top.visited[Len(Top.visited)]].startIndex < Top.index
          /\ Top.pc = "return" =>
                \/ tree.nodes[Top.visited[Len(Top.visited)]].startIndex >= Top.index
                \/ /\ Len(Top.visited) = Len(tree.nodes)
                   /\ Top.cursor = 1
                   /\ ~HasNextSibling(tree, 1)
    /\ phase = "found" => findResult = FindSyntaxNode(tree, findIndex)

\* C24 (findSyntaxNode terminates): on every tree and for every offset the
\* call returns; find is called on the nodes in depth-first pre-order, on each
\* at most once, and the walk ends at the first node visited whose start is not
\* less than the offset or, every node visited, when it is back at the root
\* with no sibling to go to.
C24_WalkTerminates == []C24_Walk /\ (phase = "walking" ~> phase = "found")

\* Every node of a tree with a nested last child was visited and the walk
\* went up twice to end at the root.
C24_Witness ==
    /\ Running("findSyntaxNode", "return")
    /\ Len(tree.nodes) = 4
    /\ tree.nodes[4].parent = 3
    /\ tree.nodes[3].parent = 1
    /\ Len(Top.visited) = 4
    /\ Top.lastNode = 4
    /\ Top.cursor = 1

\* The captured nodes whose span contains the cursor, and the options offered
\* for such a node.
NumbersAt(t, cursor) ==
    {n \in DOMAIN t.nodes :
        /\ t.nodes[n].type = "number"
        /\ t.nodes[n].startIndex <= cursor
        /\ cursor <= t.nodes[n].endIndex}

Offered(t, n) ==
    {i \in DOMAIN CompleteOptions :
        /\ StartsWith(CompleteOptions[i], NodeText(t, n))
        /\ CompleteOptions[i] # NodeText(t, n)}

MayOpen(t, sel) ==
    /\ sel # NoSelection
    /\ sel.start = sel.end
    /\ \E n \in NumbersAt(t, sel.start) : Offered(t, n) # {}

\* The menu c shows what is offered for a node of t at the cursor it was
\* opened at.
BuiltFor(c, t) ==
    \E n \in DOMAIN t.nodes :
        /\ t.nodes[n].type = "number"
        /\ Len(c.children) = Cardinality(Offered(t, n))
        /\ c.children # <<>>
        /\ \A k \in DOMAIN c.children :
              /\ c.children[k].start = c.children[k].end
              /\ t.nodes[n].startIndex <= c.children[k].start
              /\ c.children[k].start <= t.nodes[n].endIndex
              /\ RealStart(c.children[k]) = t.nodes[n].startIndex
              /\ RealEnd(c.children[k]) = t.nodes[n].endIndex
              /\ StartsWith(c.children[k].text, NodeText(t, n))

CompleteAlive == widgets.complete.attached /\ ~widgets.complete.disposed

C25_Handler ==
    HandlerComplete =>
        /\ widgets'.complete.connected <=> MayOpen(tree, selection)
        /\ widgets'.complete.connected =>
              /\ BuiltFor(widgets'.complete, tree)
              /\ widgets'.complete.children[1].start = selection.start
              /\ widgets'.complete.selectIndex = 0

C25_AfterCycle ==
    (CompleteAlive /\ Running("sourceChange", "return")) =>
        /\ ~MayOpen(tree, selection) => ~widgets.complete.connected
        /\ widgets.complete.connected => BuiltFor(widgets.complete, tree)

C25_NoStaleMenu ==
    (CompleteAlive /\ Idle /\ widgets.complete.connected) =>
        /\ TreeOf(source)
        /\ BuiltFor(widgets.complete, tree)

Accepting == ~Idle /\ stack[1].op = "click"

C27_ThroughReplaceText ==
    Accepting =>
        LET item == stack[1].item IN
        /\ stack[1].start = item.start /\ stack[1].end = item.end
        /\ Len(stack) >= 2 =>
              /\ stack[2].op = "replaceText"
              /\ stack[2].start = item.start + item.offsetStart
              /\ stack[2].end = item.end + item.offsetEnd
              /\ stack[2].text = item.text
        /\ (Len(stack) = 1 /\ 0 <= RealStart(item) /\ RealStart(item) <= RealEnd(item)
               /\ RealEnd(item) <= Len(stack[1].pre)) =>
              source = SubSeq(stack[1].pre, 1, RealStart(item))
                       \o item.text
                       \o SubSeq(stack[1].pre, RealEnd(item) + 1, Len(stack[1].pre))
        /\ Len(stack) = 1 =>
              /\ source = Slice(stack[1].pre, 0, item.start + item.offsetStart)
                          \o item.text
                          \o SliceFrom(stack[1].pre, item.end + item.offsetEnd)
              /\ selection = [start |-> item.start + item.offsetStart + Len(item.text),
                              end |-> item.start + item.offsetStart + Len(item.text)]

C27_Accept ==
    /\ \A i \in ItemIndices :
          Click(i) => /\ Accepting'
                      /\ stack'[1].item = widgets.complete.children[i + 1]
                      /\ stack'[1].pre = source
    /\ (KeyDown("Enter") /\ stack' # stack) =>
          /\ Accepting'
          /\ stack'[1].item = widgets.complete.children[widgets.complete.selectIndex + 1]
          /\ stack'[1].item.selected
          /\ stack'[1].pre = source
    /\ (Accepting /\ Len(stack) = 1) =>
          /\ stack' = <<>>
          /\ ~widgets'.complete.connected
          /\ source' = source /\ selection' = selection

\* C27 (accepting a completion): a click on an item, or Enter for the selected
\* item, of a menu opened at (start, end) calls replaceText for the range from
\* start + offsetStart to end + offsetEnd with the text of the item; when the
\* listener returns the buffer is the text at the click with that range
\* replaced, the selection is collapsed at start + offsetStart + length(text),
\* and the menu is closed whatever the handlers of the cycle did to it.
C27_AcceptCompletion == []C27_ThroughReplaceText /\ [][C27_Accept]_vars

\* The replaceText of an accepted item that replaces the node before the
\* caret has returned, and the afterChange handler has opened the menu again.
C27_Witness ==
    /\ Running("click", "closeComplete")
    /\ CompleteAlive
    /\ widgets.complete.connected
    /\ Top.item.offsetStart < 0
    /\ source # Top.pre
    /\ BuiltFor(widgets.complete, tree)

====
